---------------------------- MODULE Spec2Model ----------------------------
(***************************************************************************)
(* FamilyTree backend (src/app/backend/main.py): the session gate and the  *)
(* People / Relationships / Events handlers, as a state machine over the   *)
(* SQLite tables the handlers read and write.                              *)
(*                                                                         *)
(* Conventions.                                                            *)
(*  - A JSON value that may be absent or null is <<>> (Python None) or     *)
(*    <<v>>.  Strings the code transforms (strip, lower, len) are tuples   *)
(*    of one-character strings; strings it only stores are TLA+ strings.   *)
(*  - The Authorization header is <<>> (no header) or <<prefix, rest>>,    *)
(*    the header text being prefix followed by rest, prefix its first 7    *)
(*    characters.                                                          *)
(*  - Timestamps are whole days; isoformat() strings compare as the times  *)
(*    they denote.                                                         *)
(*  - A table with hard deletes is a set of rows carrying their id; a      *)
(*    table without is a sequence indexed by id.                           *)
(*  - Columns that no modelled query reads (bio, gender, details, ...)     *)
(*    are left out of the rows, and a list result is the set of the ids    *)
(*    of its rows.                                                         *)
(***************************************************************************)
EXTENDS Integers, Sequences, FiniteSets, TLC

VARIABLES
    now,            \* datetime.now(), in days
    Users,          \* table Users: sequence, id = index
    Sessions,       \* table Sessions: set of rows
    issued,         \* number of tokens generate_session_token has returned
    revoked,        \* history: tokens carried by a successful logout
    People,         \* table People: sequence, id = index
    Relationships,  \* table Relationships: set of rows with id
    Events,         \* table Events: set of rows with id
    last,           \* the last request and its response
    parked          \* a request suspended between two statements of its handler

db   == <<Users, Sessions, People, Relationships, Events>>
vars == <<now, Users, Sessions, issued, revoked, People, Relationships, Events, last,
          parked>>

---------------------------------------------------------------------------
(* Bounds of the model *)
MaxUsers  == 2
MaxTokens == 2
MaxPeople == 2
MaxRels   == 1
MaxEvents == 1
MaxTime   == 7

(* Program constants *)
SESSION_EXPIRY_DAYS == 7
MIN_PASSWORD_LENGTH == 6

---------------------------------------------------------------------------
(* Python and SQL primitives *)

None == <<>>

\* Python truthiness of an optional stored string, an optional character
\* string and an optional integer ("not v" is its negation)
TruthyStr(v)   == v # None /\ v[1] # ""
TruthyChars(v) == v # None /\ v[1] # <<>>
TruthyInt(v)   == v # None /\ v[1] # 0

\* (v or '') for an optional character string
OrEmpty(v) == IF TruthyChars(v) THEN v[1] ELSE <<>>

UpperCase == <<"A","B","C","D","E","F","G","H","I","J","K","L","M",
               "N","O","P","Q","R","S","T","U","V","W","X","Y","Z">>
LowerCase == <<"a","b","c","d","e","f","g","h","i","j","k","l","m",
               "n","o","p","q","r","s","t","u","v","w","x","y","z">>
Whitespace == {" ", "\t", "\n", "\r"}

\* str.lower(), one character
LowerChar(c) ==
    IF \E i \in 1..Len(UpperCase) : UpperCase[i] = c
    THEN LowerCase[CHOOSE i \in 1..Len(UpperCase) : UpperCase[i] = c]
    ELSE c

\* str.lower()
StrLower(s) == [i \in 1..Len(s) |-> LowerChar(s[i])]

RECURSIVE LStrip(_)
LStrip(s) == IF s # <<>> /\ Head(s) \in Whitespace THEN LStrip(Tail(s)) ELSE s

RECURSIVE RStrip(_)
RStrip(s) ==
    IF s # <<>> /\ s[Len(s)] \in Whitespace
    THEN RStrip(SubSeq(s, 1, Len(s) - 1))
    ELSE s

\* str.strip()
StrStrip(s) == RStrip(LStrip(s))

\* Mutant: the INSERT takes the largest rowid in use again
NextRowId_Reused(ids) == IF ids = {} THEN 1 ELSE CHOOSE m \in ids : \A i \in ids : i <= m

\* cursor.lastrowid of an INSERT into a rowid table
NextRowId(ids) == IF ids = {} THEN 1 ELSE (CHOOSE m \in ids : \A i \in ids : i <= m) + 1

RelIds == {r.id : r \in Relationships}
EvIds  == {e.id : e \in Events}

---------------------------------------------------------------------------
(* Fixed relationship types *)
RELATION_TYPES ==
    << <<"f","a","t","h","e","r">>, <<"m","o","t","h","e","r">>,
       <<"b","r","o","t","h","e","r">>, <<"s","i","s","t","e","r">>,
       <<"h","u","s","b","a","n","d">>, <<"w","i","f","e">> >>

InRelationTypes(t) == \E i \in 1..Len(RELATION_TYPES) : RELATION_TYPES[i] = t

---------------------------------------------------------------------------
(* Authentication helpers *)

\* hashlib.sha256(password).hexdigest(): deterministic and collision free
hash_password(password) == <<"sha256", password>>

\* secrets.token_urlsafe(32): 256 random bits, a value never returned before
generate_session_token == issued + 1

\* Mutant: the SELECT without "AND s.expires_at > ?"
get_current_user_NoExpiry(h) ==
    IF h = <<>> \/ h[1] # "Bearer "
    THEN {}
    ELSE {s.user_id : s \in {s \in Sessions :
                                /\ s.session_token = h[2]
                                /\ Users[s.user_id].is_active}}

\* Mutant: "s.expires_at >= ?" for "s.expires_at > ?"
get_current_user_ExpiryInclusive(h) ==
    IF h = <<>> \/ h[1] # "Bearer "
    THEN {}
    ELSE {s.user_id : s \in {s \in Sessions :
                                /\ s.session_token = h[2]
                                /\ s.expires_at >= now
                                /\ Users[s.user_id].is_active}}

\* The rows of get_current_user's SELECT for a header; fetchone() takes one.
\* {} is the function's None.
get_current_user(h) ==
    IF h = <<>> \/ h[1] # "Bearer "
    THEN {}
    ELSE {s.user_id : s \in {s \in Sessions :
                                /\ s.session_token = h[2]
                                /\ s.expires_at > now
                                /\ Users[s.user_id].is_active}}

\* The response record of a handler
Response(op, h, user, id, body, status, error, data) ==
    [op |-> op, hdr |-> h, user |-> user, id |-> id, body |-> body,
     status |-> status, error |-> error, data |-> data]

\* No request is being handled (flask.g is empty)
NoRequest == Response("idle", None, 0, 0, None, 0, "", {})

\* Mutant: the rejection sweeps the expired sessions
Unauthenticated_Sweeping(op, h) ==
    /\ last' = Response(op, h, 0, 0, None, 401, "Authentication required", {})
    /\ Sessions' = {s \in Sessions : s.expires_at > now}
    /\ UNCHANGED <<now, Users, People, Relationships, Events, issued, revoked, parked>>

\* require_auth's rejection: the handler is not called, its arguments are
\* not read
Unauthenticated(op, h) ==
    /\ last' = Response(op, h, 0, 0, None, 401, "Authentication required", {})
    /\ UNCHANGED <<now, db, issued, revoked, parked>>

\* close_db_connection, at the teardown of the request context
close_db_connection ==
    /\ last # NoRequest
    /\ last' = NoRequest
    /\ UNCHANGED <<now, db, issued, revoked, parked>>

---------------------------------------------------------------------------
(* Auth endpoints *)

\* Mutant: "len(password) < 5"
PasswordTooShort_OffByOne(password) == Len(password) < MIN_PASSWORD_LENGTH - 1

\* len(password) < 6
PasswordTooShort(password) == Len(password) < MIN_PASSWORD_LENGTH

\* The UNIQUE constraints of table Users: on username, and on email when
\* one is present; self is the row being updated, 0 for an INSERT
UsernameTaken(name) == \E i \in 1..Len(Users) : Users[i].username = name
EmailTaken(mail, self) ==
    mail # <<>> /\ \E i \in 1..Len(Users) : i # self /\ Users[i].email = mail

\* Mutant: the lookup finds no row
SelectUserByName_Nothing(name) == {}

\* SELECT id FROM Users WHERE username = ?
SelectUserByName(name) == {i \in 1..Len(Users) : Users[i].username = name}

\* Mutant: no "except sqlite3.IntegrityError", the general handler answers
RegisterIntegrityError_Unhandled == <<500, "UNIQUE constraint failed: Users.username">>

\* register's answer to sqlite3.IntegrityError
RegisterIntegrityError == <<400, "Username or email already exists">>

\* POST /api/auth/register
register(username, password, email) ==
    LET name == StrStrip(username)
        mail == StrStrip(OrEmpty(email))
    IN
    /\ UNCHANGED <<now, Sessions, issued, revoked, parked, People, Relationships, Events>>
    /\ IF name = <<>> \/ password = <<>>
       THEN /\ last' = Response("register", None, 0, 0, <<username, password>>, 400,
                                "Username and password are required", {})
            /\ UNCHANGED Users
       ELSE IF PasswordTooShort(password)
       THEN /\ last' = Response("register", None, 0, 0, <<username, password>>, 400,
                                "Password must be at least 6 characters", {})
            /\ UNCHANGED Users
       ELSE IF SelectUserByName(name) # {}
       THEN /\ last' = Response("register", None, 0, 0, <<username, password>>, 400,
                                "Username already exists", {})
            /\ UNCHANGED Users
       ELSE IF UsernameTaken(name) \/ EmailTaken(mail, 0)
       THEN /\ last' = Response("register", None, 0, 0, <<username, password>>,
                                RegisterIntegrityError[1], RegisterIntegrityError[2], {})
            /\ UNCHANGED Users
       ELSE /\ Users' = Append(Users, [username      |-> name,
                                       password_hash |-> hash_password(password),
                                       email         |-> mail,
                                       is_active     |-> TRUE])
            /\ last' = Response("register", None, 0, 0, <<username, password>>, 201,
                                "", {Len(Users) + 1})

\* Mutant: table Sessions without the constraint
SessionTokenTaken_NoConstraint(token) == FALSE

\* The UNIQUE constraint of table Sessions on session_token
SessionTokenTaken(token) == \E s \in Sessions : s.session_token = token

\* POST /api/auth/login, session_token being the value that
\* generate_session_token() returns to it
login_with_token(username, password, session_token) ==
    LET name == StrStrip(username)
        rows == {i \in 1..Len(Users) :
                    /\ Users[i].username = name
                    /\ Users[i].password_hash = hash_password(password)
                    /\ Users[i].is_active}
    IN
    /\ UNCHANGED <<now, Users, revoked, parked, People, Relationships, Events>>
    /\ IF name = <<>> \/ password = <<>>
       THEN /\ last' = Response("login", None, 0, 0, <<username, password>>, 400,
                                "Username and password are required", {})
            /\ UNCHANGED <<Sessions, issued>>
       ELSE IF rows = {}
       THEN /\ last' = Response("login", None, 0, 0, <<username, password>>, 401,
                                "Invalid username or password", {})
            /\ UNCHANGED <<Sessions, issued>>
       ELSE \E user \in rows :
            /\ issued' = issued + 1
            /\ IF SessionTokenTaken(session_token)
               THEN /\ last' = Response("login", None, user, 0, <<username, password>>, 500,
                                        "UNIQUE constraint failed: Sessions.session_token", {})
                    /\ UNCHANGED Sessions
               ELSE /\ Sessions' = Sessions \cup
                           {[user_id       |-> user,
                             session_token |-> session_token,
                             expires_at    |-> now + SESSION_EXPIRY_DAYS]}
                    /\ last' = Response("login", None, user, 0, <<username, password>>, 200,
                                        "", {session_token})

\* POST /api/auth/login with a token that no earlier call has returned
login(username, password) == login_with_token(username, password, generate_session_token)

\* Mutant: the DELETE is never committed
DeleteSession_NotCommitted(token) == Sessions

\* Mutant: "DELETE FROM Sessions WHERE user_id = ?", every session of the caller
DeleteSession_AllOfUser(token) ==
    {s \in Sessions : \A t \in Sessions : t.session_token = token => s.user_id # t.user_id}

\* DELETE FROM Sessions WHERE session_token = ?
DeleteSession(token) == {s \in Sessions : s.session_token # token}

\* POST /api/auth/logout
logout(h) ==
    IF get_current_user(h) = {}
    THEN Unauthenticated("logout", h)
    ELSE \E user \in get_current_user(h) :
         /\ Sessions' = DeleteSession(h[2])
         /\ revoked' = revoked \cup {h[2]}
         /\ last' = Response("logout", h, user, 0, None, 200, "", {})
         /\ UNCHANGED <<now, Users, issued, parked, People, Relationships, Events>>

\* GET /api/auth/me
get_current_user_info(h) ==
    IF get_current_user(h) = {}
    THEN Unauthenticated("get_current_user_info", h)
    ELSE \E user \in get_current_user(h) :
         /\ last' = Response("get_current_user_info", h, user, 0, None, 200, "", {user})
         /\ UNCHANGED <<now, db, issued, revoked, parked>>

\* PUT /api/auth/me
update_current_user(h, email, new_password) ==
    LET body == <<email, new_password>> IN
    IF get_current_user(h) = {}
    THEN Unauthenticated("update_current_user", h)
    ELSE \E user \in get_current_user(h) :
         /\ UNCHANGED <<now, Sessions, issued, revoked, parked, People, Relationships, Events>>
         /\ IF TruthyChars(new_password) /\ PasswordTooShort(new_password[1])
            THEN /\ last' = Response("update_current_user", h, user, 0, body, 400,
                                     "Password must be at least 6 characters", {})
                 /\ UNCHANGED Users
            ELSE IF email = None /\ ~TruthyChars(new_password)
            THEN /\ last' = Response("update_current_user", h, user, 0, body, 400,
                                     "No fields provided to update", {})
                 /\ UNCHANGED Users
            ELSE IF email # None /\ EmailTaken(StrStrip(email[1]), user)
            THEN /\ last' = Response("update_current_user", h, user, 0, body, 400,
                                     "Email already in use", {})
                 /\ UNCHANGED Users
            ELSE /\ Users' = [Users EXCEPT ![user] =
                       [@ EXCEPT !.email = IF email = None THEN @ ELSE StrStrip(email[1]),
                                 !.password_hash =
                                     IF TruthyChars(new_password)
                                     THEN hash_password(new_password[1])
                                     ELSE @]]
                 /\ last' = Response("update_current_user", h, user, 0, body, 200, "", {user})

---------------------------------------------------------------------------
(* Environment *)

\* The clock advances by d days
Tick(d) ==
    /\ now' = now + d
    /\ UNCHANGED <<db, issued, revoked, parked, last>>

\* A user is deactivated (Users.is_active set to 0 outside the API)
Deactivate(u) ==
    /\ u \in 1..Len(Users)
    /\ Users[u].is_active
    /\ Users' = [Users EXCEPT ![u].is_active = FALSE]
    /\ UNCHANGED <<now, Sessions, issued, revoked, parked, People, Relationships, Events, last>>

---------------------------------------------------------------------------
(* People endpoints *)

\* Mutant: the SELECT without "AND is_deleted = 0"
SelectPerson_WithDeleted(person_id, user) ==
    {p \in 1..Len(People) : p = person_id /\ People[p].user_id = user}

\* SELECT ... FROM People WHERE id = ? AND is_deleted = 0 AND user_id = ?
SelectPerson(person_id, user) ==
    {p \in 1..Len(People) :
        /\ p = person_id
        /\ ~People[p].is_deleted
        /\ People[p].user_id = user}

\* Mutant: the SELECT without "is_deleted = 0"
SelectPeople_WithDeleted(user) ==
    {p \in 1..Len(People) : People[p].user_id = user}

\* SELECT ... FROM People WHERE is_deleted = 0 AND user_id = ?
SelectPeople(user) ==
    {p \in 1..Len(People) : ~People[p].is_deleted /\ People[p].user_id = user}

\* GET /api/people
get_all_people(h) ==
    IF get_current_user(h) = {}
    THEN Unauthenticated("get_all_people", h)
    ELSE \E user \in get_current_user(h) :
         /\ last' = Response("get_all_people", h, user, 0, None, 200, "", SelectPeople(user))
         /\ UNCHANGED <<now, db, issued, revoked, parked>>

\* GET /api/people/<person_id>
get_person(h, person_id) ==
    IF get_current_user(h) = {}
    THEN Unauthenticated("get_person", h)
    ELSE \E user \in get_current_user(h) :
         /\ UNCHANGED <<now, db, issued, revoked, parked>>
         /\ IF SelectPerson(person_id, user) = {}
            THEN last' = Response("get_person", h, user, person_id, None, 404,
                                  "Person not found", {})
            ELSE last' = Response("get_person", h, user, person_id, None, 200, "",
                                  SelectPerson(person_id, user))

\* POST /api/people
create_person(h, given_name, family_name) ==
    LET body == <<given_name, family_name>> IN
    IF get_current_user(h) = {}
    THEN Unauthenticated("create_person", h)
    ELSE \E user \in get_current_user(h) :
         /\ UNCHANGED <<now, Users, Sessions, issued, revoked, parked, Relationships, Events>>
         /\ IF ~TruthyStr(given_name) \/ ~TruthyStr(family_name)
            THEN /\ last' = Response("create_person", h, user, 0, body, 400,
                                     "Given name and family name are required", {})
                 /\ UNCHANGED People
            ELSE /\ People' = Append(People, [user_id     |-> user,
                                              given_name  |-> given_name,
                                              family_name |-> family_name,
                                              is_deleted  |-> FALSE,
                                              updated_at  |-> now])
                 /\ last' = Response("create_person", h, user, 0, body, 201, "",
                                     {Len(People) + 1})

\* PUT /api/people/<person_id>
update_person(h, person_id, given_name, family_name) ==
    LET body == <<given_name, family_name>> IN
    IF get_current_user(h) = {}
    THEN Unauthenticated("update_person", h)
    ELSE \E user \in get_current_user(h) :
         /\ UNCHANGED <<now, Users, Sessions, issued, revoked, parked, Relationships, Events>>
         /\ IF SelectPerson(person_id, user) = {}
            THEN /\ last' = Response("update_person", h, user, person_id, body, 404,
                                     "Person not found", {})
                 /\ UNCHANGED People
            ELSE /\ People' = [p \in 1..Len(People) |->
                                  IF p = person_id /\ People[p].user_id = user
                                  THEN [People[p] EXCEPT !.given_name  = given_name,
                                                         !.family_name = family_name,
                                                         !.updated_at  = now]
                                  ELSE People[p]]
                 /\ last' = Response("update_person", h, user, person_id, body, 200, "", {})

\* Mutant: the lookup without "is_deleted = 0" and "SET is_deleted = NOT is_deleted"
delete_person_Toggling(h, person_id) ==
    IF get_current_user(h) = {}
    THEN Unauthenticated("delete_person", h)
    ELSE \E user \in get_current_user(h) :
         /\ UNCHANGED <<now, Users, Sessions, issued, revoked, parked, Relationships, Events>>
         /\ IF SelectPerson_WithDeleted(person_id, user) = {}
            THEN /\ last' = Response("delete_person", h, user, person_id, None, 404,
                                     "Person not found", {})
                 /\ UNCHANGED People
            ELSE /\ People' = [p \in 1..Len(People) |->
                                  IF p = person_id /\ People[p].user_id = user
                                  THEN [People[p] EXCEPT !.is_deleted = ~People[p].is_deleted,
                                                         !.updated_at = now]
                                  ELSE People[p]]
                 /\ last' = Response("delete_person", h, user, person_id, None, 200, "", {})

\* DELETE /api/people/<person_id>
delete_person(h, person_id) ==
    IF get_current_user(h) = {}
    THEN Unauthenticated("delete_person", h)
    ELSE \E user \in get_current_user(h) :
         /\ UNCHANGED <<now, Users, Sessions, issued, revoked, parked, Relationships, Events>>
         /\ IF SelectPerson(person_id, user) = {}
            THEN /\ last' = Response("delete_person", h, user, person_id, None, 404,
                                     "Person not found", {})
                 /\ UNCHANGED People
            ELSE /\ People' = [p \in 1..Len(People) |->
                                  IF p = person_id /\ People[p].user_id = user
                                  THEN [People[p] EXCEPT !.is_deleted = TRUE,
                                                         !.updated_at = now]
                                  ELSE People[p]]
                 /\ last' = Response("delete_person", h, user, person_id, None, 200, "", {})

---------------------------------------------------------------------------
(* Relationships endpoints *)

\* Mutant: the join without the p1.user_id / p2.user_id conditions
SelectRelationship_AnyOwner(rel_id, user) ==
    {r \in Relationships : r.id = rel_id}

\* Mutant: the join with "AND p1.is_deleted = 0 AND p2.is_deleted = 0"
SelectRelationship_LiveOnly(rel_id, user) ==
    {r \in Relationships :
        /\ r.id = rel_id
        /\ r.person1_id \in 1..Len(People)
        /\ r.person2_id \in 1..Len(People)
        /\ People[r.person1_id].user_id = user
        /\ People[r.person2_id].user_id = user
        /\ ~People[r.person1_id].is_deleted
        /\ ~People[r.person2_id].is_deleted}

\* FROM Relationships r JOIN People p1 ... JOIN People p2 ...
\* WHERE r.id = ? AND p1.user_id = ? AND p2.user_id = ?
SelectRelationship(rel_id, user) ==
    {r \in Relationships :
        /\ r.id = rel_id
        /\ r.person1_id \in 1..Len(People)
        /\ r.person2_id \in 1..Len(People)
        /\ People[r.person1_id].user_id = user
        /\ People[r.person2_id].user_id = user}

\* ... WHERE p1.user_id = ? AND p2.user_id = ?
\*       AND p1.is_deleted = 0 AND p2.is_deleted = 0
SelectRelationships(user) ==
    {r \in Relationships :
        /\ r.person1_id \in 1..Len(People)
        /\ r.person2_id \in 1..Len(People)
        /\ People[r.person1_id].user_id = user
        /\ People[r.person2_id].user_id = user
        /\ ~People[r.person1_id].is_deleted
        /\ ~People[r.person2_id].is_deleted}

\* Mutant: the COUNT without "AND user_id = ?"
CountPeople_AnyOwner(person1_id, person2_id, user) ==
    Cardinality({p \in 1..Len(People) :
                    /\ p \in {person1_id, person2_id}
                    /\ ~People[p].is_deleted})

\* SELECT COUNT(*) FROM People WHERE id IN (?, ?) AND user_id = ? AND is_deleted = 0
CountPeople(person1_id, person2_id, user) ==
    Cardinality({p \in 1..Len(People) :
                    /\ p \in {person1_id, person2_id}
                    /\ People[p].user_id = user
                    /\ ~People[p].is_deleted})

\* rel_type = (data.get('type') or '').strip().lower()
NormalizeType(type) == StrLower(StrStrip(OrEmpty(type)))

\* Mutant: without "if person1_id == person2_id"
RelationshipPayloadError_NoSelfCheck(person1_id, person2_id, rel_type) ==
    IF ~TruthyInt(person1_id) \/ ~TruthyInt(person2_id)
    THEN "Both people are required"
    ELSE IF rel_type # <<>> /\ ~InRelationTypes(rel_type)
    THEN "Invalid relationship type"
    ELSE ""

\* Mutant: without "if rel_type and rel_type not in RELATION_TYPES"
RelationshipPayloadError_NoTypeCheck(person1_id, person2_id, rel_type) ==
    IF ~TruthyInt(person1_id) \/ ~TruthyInt(person2_id)
    THEN "Both people are required"
    ELSE IF person1_id = person2_id
    THEN "A person cannot have a relationship with themselves"
    ELSE ""

\* The three payload checks that create_relationship and update_relationship
\* share, in the order of the code; "" when all pass
RelationshipPayloadError(person1_id, person2_id, rel_type) ==
    IF ~TruthyInt(person1_id) \/ ~TruthyInt(person2_id)
    THEN "Both people are required"
    ELSE IF person1_id = person2_id
    THEN "A person cannot have a relationship with themselves"
    ELSE IF rel_type # <<>> /\ ~InRelationTypes(rel_type)
    THEN "Invalid relationship type"
    ELSE ""

\* GET /api/relationships/types
get_relationship_types(h) ==
    IF get_current_user(h) = {}
    THEN Unauthenticated("get_relationship_types", h)
    ELSE \E user \in get_current_user(h) :
         /\ last' = Response("get_relationship_types", h, user, 0, None, 200, "",
                             {RELATION_TYPES[i] : i \in 1..Len(RELATION_TYPES)})
         /\ UNCHANGED <<now, db, issued, revoked, parked>>

\* GET /api/relationships
get_relationships(h) ==
    IF get_current_user(h) = {}
    THEN Unauthenticated("get_relationships", h)
    ELSE \E user \in get_current_user(h) :
         /\ last' = Response("get_relationships", h, user, 0, None, 200, "",
                             {r.id : r \in SelectRelationships(user)})
         /\ UNCHANGED <<now, db, issued, revoked, parked>>

\* GET /api/relationships/<rel_id>
get_relationship(h, rel_id) ==
    IF get_current_user(h) = {}
    THEN Unauthenticated("get_relationship", h)
    ELSE \E user \in get_current_user(h) :
         /\ UNCHANGED <<now, db, issued, revoked, parked>>
         /\ IF SelectRelationship(rel_id, user) = {}
            THEN last' = Response("get_relationship", h, user, rel_id, None, 404,
                                  "Relationship not found", {})
            ELSE last' = Response("get_relationship", h, user, rel_id, None, 200, "",
                                  {r.id : r \in SelectRelationship(rel_id, user)})

\* Table Relationships carries no UNIQUE constraint on
\* (person1_id, person2_id, type): no INSERT is refused for its triple
RelationshipTaken(person1_id, person2_id, type) == FALSE

\* POST /api/relationships
create_relationship(h, person1_id, person2_id, type) ==
    LET body     == <<person1_id, person2_id, type>>
        rel_type == NormalizeType(type)
        error    == RelationshipPayloadError(person1_id, person2_id, rel_type)
    IN
    IF get_current_user(h) = {}
    THEN Unauthenticated("create_relationship", h)
    ELSE \E user \in get_current_user(h) :
         /\ UNCHANGED <<now, Users, Sessions, issued, revoked, parked, People, Events>>
         /\ IF error # ""
            THEN /\ last' = Response("create_relationship", h, user, 0, body, 400, error, {})
                 /\ UNCHANGED Relationships
            ELSE IF CountPeople(person1_id[1], person2_id[1], user) # 2
            THEN /\ last' = Response("create_relationship", h, user, 0, body, 400,
                                     "Both people must exist and belong to the current user", {})
                 /\ UNCHANGED Relationships
            ELSE IF RelationshipTaken(person1_id[1], person2_id[1], rel_type)
            THEN /\ last' = Response("create_relationship", h, user, 0, body, 500,
                                     "UNIQUE constraint failed", {})
                 /\ UNCHANGED Relationships
            ELSE /\ Relationships' = Relationships \cup
                        {[id         |-> NextRowId(RelIds),
                          person1_id |-> person1_id[1],
                          person2_id |-> person2_id[1],
                          type       |-> rel_type]}
                 /\ last' = Response("create_relationship", h, user, 0, body, 201, "",
                                     {NextRowId(RelIds)})

\* PUT /api/relationships/<rel_id>
update_relationship(h, rel_id, person1_id, person2_id, type) ==
    LET body     == <<person1_id, person2_id, type>>
        rel_type == NormalizeType(type)
        error    == RelationshipPayloadError(person1_id, person2_id, rel_type)
    IN
    IF get_current_user(h) = {}
    THEN Unauthenticated("update_relationship", h)
    ELSE \E user \in get_current_user(h) :
         /\ UNCHANGED <<now, Users, Sessions, issued, revoked, parked, People, Events>>
         /\ IF SelectRelationship(rel_id, user) = {}
            THEN /\ last' = Response("update_relationship", h, user, rel_id, body, 404,
                                     "Relationship not found", {})
                 /\ UNCHANGED Relationships
            ELSE IF error # ""
            THEN /\ last' = Response("update_relationship", h, user, rel_id, body, 400,
                                     error, {})
                 /\ UNCHANGED Relationships
            ELSE IF CountPeople(person1_id[1], person2_id[1], user) # 2
            THEN /\ last' = Response("update_relationship", h, user, rel_id, body, 400,
                                     "Both people must exist and belong to the current user", {})
                 /\ UNCHANGED Relationships
            ELSE /\ Relationships' =
                        {IF r.id = rel_id
                         THEN [r EXCEPT !.person1_id = person1_id[1],
                                        !.person2_id = person2_id[1],
                                        !.type       = rel_type]
                         ELSE r : r \in Relationships}
                 /\ last' = Response("update_relationship", h, user, rel_id, body, 200, "", {})

\* DELETE /api/relationships/<rel_id>
delete_relationship(h, rel_id) ==
    IF get_current_user(h) = {}
    THEN Unauthenticated("delete_relationship", h)
    ELSE \E user \in get_current_user(h) :
         /\ UNCHANGED <<now, Users, Sessions, issued, revoked, parked, People, Events>>
         /\ IF SelectRelationship(rel_id, user) = {}
            THEN /\ last' = Response("delete_relationship", h, user, rel_id, None, 404,
                                     "Relationship not found", {})
                 /\ UNCHANGED Relationships
            ELSE /\ Relationships' = {r \in Relationships : r.id # rel_id}
                 /\ last' = Response("delete_relationship", h, user, rel_id, None, 200, "", {})

---------------------------------------------------------------------------
(* Events endpoints *)

\* person_id = data.get('created_by') or data.get('person_id')
EventPerson(created_by, person_id) == IF TruthyInt(created_by) THEN created_by ELSE person_id

\* SELECT ... FROM Events e LEFT JOIN People p ... WHERE e.user_id = ?
SelectEvents(user) == {e \in Events : e.user_id = user}

\* SELECT ... FROM Events WHERE id = ? AND user_id = ?
SelectEvent(event_id, user) == {e \in Events : e.id = event_id /\ e.user_id = user}

\* the characters of a 'YYYY-MM-DD' text, in the order of their code points
DateChars == <<"-", "0", "1", "2", "3", "4", "5", "6", "7", "8", "9">>

CharCode(c) == CHOOSE i \in 1..Len(DateChars) : DateChars[i] = c

\* the comparison of two TEXT values in SQLite (BINARY collation): the first
\* differing character decides, a proper prefix is the smaller one
RECURSIVE TextLess(_, _)
TextLess(s, t) ==
    IF t = <<>> THEN FALSE
    ELSE IF s = <<>> THEN TRUE
    ELSE IF Head(s) # Head(t) THEN CharCode(Head(s)) < CharCode(Head(t))
    ELSE TextLess(Tail(s), Tail(t))

\* e.event_date DESC: a sorts before b by this key
EventDateKey(a, b) ==
    IF a.event_date = None \/ b.event_date = None THEN FALSE
    ELSE TextLess(b.event_date[1], a.event_date[1])

\* Mutant: "e.id ASC"
EventIdKey_Ascending(a, b) == a.id < b.id

\* e.id DESC: a sorts before b by this key
EventIdKey(a, b) == a.id > b.id

\* ORDER BY e.event_date IS NULL, e.event_date DESC, e.id DESC:
\* row a is placed before row b
EventBefore(a, b) ==
    IF (a.event_date = None) # (b.event_date = None) THEN b.event_date = None
    ELSE IF EventDateKey(a, b) \/ EventDateKey(b, a) THEN EventDateKey(a, b)
    ELSE EventIdKey(a, b)

\* rows = cur.fetchall(): the selected rows in the order of ORDER BY
RECURSIVE OrderEvents(_)
OrderEvents(rows) ==
    IF rows = {} THEN <<>>
    ELSE LET first == CHOOSE e \in rows : \A o \in rows \ {e} : EventBefore(e, o)
         IN  <<first>> \o OrderEvents(rows \ {first})

\* data.append({'id': row['id'], ...}) for row in rows
EventList(rows) == [i \in 1..Len(rows) |-> rows[i].id]

\* GET /api/events
list_events(h) ==
    IF get_current_user(h) = {}
    THEN Unauthenticated("list_events", h)
    ELSE \E user \in get_current_user(h) :
         /\ last' = Response("list_events", h, user, 0, None, 200, "",
                             EventList(OrderEvents(SelectEvents(user))))
         /\ UNCHANGED <<now, db, issued, revoked, parked>>

\* GET /api/events/<event_id>
get_event(h, event_id) ==
    IF get_current_user(h) = {}
    THEN Unauthenticated("get_event", h)
    ELSE \E user \in get_current_user(h) :
         /\ UNCHANGED <<now, db, issued, revoked, parked>>
         /\ IF SelectEvent(event_id, user) = {}
            THEN last' = Response("get_event", h, user, event_id, None, 404,
                                  "Event not found", {})
            ELSE last' = Response("get_event", h, user, event_id, None, 200, "",
                                  {e.id : e \in SelectEvent(event_id, user)})

\* POST /api/events
create_event(h, created_by, person_id, title_in, event_date) ==
    LET body   == <<created_by, person_id, title_in, event_date>>
        person == EventPerson(created_by, person_id)
        title  == StrStrip(title_in)
    IN
    IF get_current_user(h) = {}
    THEN Unauthenticated("create_event", h)
    ELSE \E user \in get_current_user(h) :
         /\ UNCHANGED <<now, Users, Sessions, issued, revoked, parked, People, Relationships>>
         /\ IF ~TruthyInt(person) \/ title = <<>>
            THEN /\ last' = Response("create_event", h, user, 0, body, 400,
                                     "Person and title are required", {})
                 /\ UNCHANGED Events
            ELSE IF SelectPerson(person[1], user) = {}
            THEN /\ last' = Response("create_event", h, user, 0, body, 404,
                                     "Person not found", {})
                 /\ UNCHANGED Events
            ELSE /\ Events' = Events \cup
                        {[id         |-> NextRowId(EvIds),
                          title      |-> title,
                          event_date |-> event_date,
                          created_by |-> person[1],
                          user_id    |-> user]}
                 /\ last' = Response("create_event", h, user, 0, body, 201, "",
                                     {NextRowId(EvIds)})

\* PUT /api/events/<event_id>
update_event(h, event_id, created_by, person_id, title_in, event_date) ==
    LET body   == <<created_by, person_id, title_in, event_date>>
        person == EventPerson(created_by, person_id)
        title  == StrStrip(title_in)
    IN
    IF get_current_user(h) = {}
    THEN Unauthenticated("update_event", h)
    ELSE \E user \in get_current_user(h) :
         /\ UNCHANGED <<now, Users, Sessions, issued, revoked, parked, People, Relationships>>
         /\ IF ~TruthyInt(person) \/ title = <<>>
            THEN /\ last' = Response("update_event", h, user, event_id, body, 400,
                                     "Person and title are required", {})
                 /\ UNCHANGED Events
            ELSE IF SelectEvent(event_id, user) = {}
            THEN /\ last' = Response("update_event", h, user, event_id, body, 404,
                                     "Event not found", {})
                 /\ UNCHANGED Events
            ELSE IF SelectPerson(person[1], user) = {}
            THEN /\ last' = Response("update_event", h, user, event_id, body, 404,
                                     "Person not found", {})
                 /\ UNCHANGED Events
            ELSE /\ Events' =
                        {IF e.id = event_id /\ e.user_id = user
                         THEN [e EXCEPT !.title      = title,
                                        !.event_date = event_date,
                                        !.created_by = person[1]]
                         ELSE e : e \in Events}
                 /\ last' = Response("update_event", h, user, event_id, body, 200, "", {})

\* DELETE /api/events/<event_id>
delete_event(h, event_id) ==
    IF get_current_user(h) = {}
    THEN Unauthenticated("delete_event", h)
    ELSE \E user \in get_current_user(h) :
         /\ UNCHANGED <<now, Users, Sessions, issued, revoked, parked, People, Relationships>>
         /\ IF SelectEvent(event_id, user) = {}
            THEN /\ last' = Response("delete_event", h, user, event_id, None, 404,
                                     "Event not found", {})
                 /\ UNCHANGED Events
            ELSE /\ Events' = Events \ SelectEvent(event_id, user)
                 /\ last' = Response("delete_event", h, user, event_id, None, 200, "", {})

---------------------------------------------------------------------------
(* Handlers served concurrently.  Each request has its own connection     *)
(* (flask.g), a SELECT runs outside any transaction and the handler's      *)
(* write opens one, so another request can be served between a handler's   *)
(* last SELECT and its write.  A handler taken in two steps: _check runs   *)
(* it up to the write and suspends it when every check has passed (the     *)
(* paths that answer before the write are those of the whole handler);     *)
(* the second step runs the write, the commit and the answer.              *)

\* The handler's local variables while it is suspended
Suspended(op, h, user, id, body) == Response(op, h, user, id, body, 0, "", {})

\* register up to the SELECT of the username
register_lookup(username, password, email) ==
    /\ parked = NoRequest
    /\ StrStrip(username) # <<>>
    /\ password # <<>>
    /\ ~PasswordTooShort(password)
    /\ SelectUserByName(StrStrip(username)) = {}
    /\ parked' = Suspended("register", None, 0, 0, <<username, password, email>>)
    /\ UNCHANGED <<now, db, issued, revoked, last>>

\* register from its INSERT on
register_insert ==
    LET name == StrStrip(parked.body[1])
        mail == StrStrip(OrEmpty(parked.body[3]))
        body == <<parked.body[1], parked.body[2]>>
    IN
    /\ parked.op = "register"
    /\ IF UsernameTaken(name) \/ EmailTaken(mail, 0)
       THEN /\ last' = Response("register", None, 0, 0, body,
                                RegisterIntegrityError[1], RegisterIntegrityError[2], {})
            /\ UNCHANGED Users
       ELSE /\ Users' = Append(Users, [username      |-> name,
                                       password_hash |-> hash_password(parked.body[2]),
                                       email         |-> mail,
                                       is_active     |-> TRUE])
            /\ last' = Response("register", None, 0, 0, body, 201, "", {Len(Users) + 1})
    /\ parked' = NoRequest
    /\ UNCHANGED <<now, Sessions, issued, revoked, People, Relationships, Events>>

\* create_relationship up to the COUNT query
create_relationship_check(h, person1_id, person2_id, type) ==
    /\ parked = NoRequest
    /\ \E user \in get_current_user(h) :
          /\ RelationshipPayloadError(person1_id, person2_id, NormalizeType(type)) = ""
          /\ CountPeople(person1_id[1], person2_id[1], user) = 2
          /\ parked' = Suspended("create_relationship", h, user, 0,
                                 <<person1_id, person2_id, type>>)
    /\ UNCHANGED <<now, db, issued, revoked, last>>

\* create_relationship from its INSERT on
create_relationship_insert ==
    /\ parked.op = "create_relationship"
    /\ Relationships' = Relationships \cup
           {[id         |-> NextRowId(RelIds),
             person1_id |-> parked.body[1][1],
             person2_id |-> parked.body[2][1],
             type       |-> NormalizeType(parked.body[3])]}
    /\ last' = Response("create_relationship", parked.hdr, parked.user, 0, parked.body,
                        201, "", {NextRowId(RelIds)})
    /\ parked' = NoRequest
    /\ UNCHANGED <<now, Users, Sessions, issued, revoked, People, Events>>

\* update_relationship up to the COUNT query
update_relationship_check(h, rel_id, person1_id, person2_id, type) ==
    /\ parked = NoRequest
    /\ \E user \in get_current_user(h) :
          /\ SelectRelationship(rel_id, user) # {}
          /\ RelationshipPayloadError(person1_id, person2_id, NormalizeType(type)) = ""
          /\ CountPeople(person1_id[1], person2_id[1], user) = 2
          /\ parked' = Suspended("update_relationship", h, user, rel_id,
                                 <<person1_id, person2_id, type>>)
    /\ UNCHANGED <<now, db, issued, revoked, last>>

\* update_relationship from its UPDATE ... WHERE id = ? on
update_relationship_write ==
    /\ parked.op = "update_relationship"
    /\ Relationships' =
           {IF r.id = parked.id
            THEN [r EXCEPT !.person1_id = parked.body[1][1],
                           !.person2_id = parked.body[2][1],
                           !.type       = NormalizeType(parked.body[3])]
            ELSE r : r \in Relationships}
    /\ last' = Response("update_relationship", parked.hdr, parked.user, parked.id,
                        parked.body, 200, "", {})
    /\ parked' = NoRequest
    /\ UNCHANGED <<now, Users, Sessions, issued, revoked, People, Events>>

\* create_event up to the SELECT of the person
create_event_check(h, created_by, person_id, title_in, event_date) ==
    /\ parked = NoRequest
    /\ \E user \in get_current_user(h) :
          /\ TruthyInt(EventPerson(created_by, person_id))
          /\ StrStrip(title_in) # <<>>
          /\ SelectPerson(EventPerson(created_by, person_id)[1], user) # {}
          /\ parked' = Suspended("create_event", h, user, 0,
                                 <<created_by, person_id, title_in, event_date>>)
    /\ UNCHANGED <<now, db, issued, revoked, last>>

\* create_event from its INSERT on
create_event_insert ==
    /\ parked.op = "create_event"
    /\ Events' = Events \cup
           {[id         |-> NextRowId(EvIds),
             title      |-> StrStrip(parked.body[3]),
             event_date |-> parked.body[4],
             created_by |-> EventPerson(parked.body[1], parked.body[2])[1],
             user_id    |-> parked.user]}
    /\ last' = Response("create_event", parked.hdr, parked.user, 0, parked.body,
                        201, "", {NextRowId(EvIds)})
    /\ parked' = NoRequest
    /\ UNCHANGED <<now, Users, Sessions, issued, revoked, People, Relationships>>

\* update_event up to the SELECT of the person
update_event_check(h, event_id, created_by, person_id, title_in, event_date) ==
    /\ parked = NoRequest
    /\ \E user \in get_current_user(h) :
          /\ TruthyInt(EventPerson(created_by, person_id))
          /\ StrStrip(title_in) # <<>>
          /\ SelectEvent(event_id, user) # {}
          /\ SelectPerson(EventPerson(created_by, person_id)[1], user) # {}
          /\ parked' = Suspended("update_event", h, user, event_id,
                                 <<created_by, person_id, title_in, event_date>>)
    /\ UNCHANGED <<now, db, issued, revoked, last>>

\* update_event from its UPDATE ... WHERE id = ? AND user_id = ? on
update_event_write ==
    /\ parked.op = "update_event"
    /\ Events' =
           {IF e.id = parked.id /\ e.user_id = parked.user
            THEN [e EXCEPT !.title      = StrStrip(parked.body[3]),
                           !.event_date = parked.body[4],
                           !.created_by = EventPerson(parked.body[1], parked.body[2])[1]]
            ELSE e : e \in Events}
    /\ last' = Response("update_event", parked.hdr, parked.user, parked.id, parked.body,
                        200, "", {})
    /\ parked' = NoRequest
    /\ UNCHANGED <<now, Users, Sessions, issued, revoked, People, Relationships>>

---------------------------------------------------------------------------
(* The requests the model sends *)

Alice   == <<"a","l","i","c","e">>
Bob     == <<" ","b","o","b">>
Secret1 == <<"s","e","c","r","e","t","1">>
Short   == <<"a","b","c","d","e">>

Usernames    == {Alice, Bob}
Passwords    == {Secret1, Short}
Emails       == {None, <<<<"a","@","x"," ">>>>}
PersonIds    == 1..MaxPeople
RelIdsIn     == 1..MaxRels
EvIdsIn      == 1..MaxEvents
GivenNames   == {None, <<"Bob">>, <<"Rob">>}
FamilyNames  == {<<"Smith">>}
OptPersonIds == {None, <<0>>} \cup {<<p>> : p \in PersonIds}
TypesIn      == {None, <<<<"F","a","t","h","e","r">>>>, <<<<" ","F","a","t","h","e","r">>>>,
                 <<<<"c","o","u","s","i","n">>>>}
Titles       == {<<" ">>, <<"T">>}
Dates        == {None}

---------------------------------------------------------------------------
(* Specification of the graph: the People, Relationships and Events        *)
(* handlers, from the state in which alice and bob have registered and     *)
(* each holds one session                                                  *)

GraphHeaders == {<<"Bearer ", 1>>, <<"Bearer ", 2>>}

InitGraph ==
    /\ now = 0
    /\ Users = << [username |-> Alice, password_hash |-> hash_password(Secret1),
                   email |-> <<>>, is_active |-> TRUE],
                  [username |-> StrStrip(Bob), password_hash |-> hash_password(Secret1),
                   email |-> <<>>, is_active |-> TRUE] >>
    /\ Sessions = {[user_id |-> u, session_token |-> u,
                    expires_at |-> SESSION_EXPIRY_DAYS] : u \in 1..2}
    /\ issued = 2
    /\ revoked = {}
    /\ People = <<>>
    /\ Relationships = {}
    /\ Events = {}
    /\ last = NoRequest
    /\ parked = NoRequest

NextGraph ==
    \/ close_db_connection
    \/ \E h \in GraphHeaders : last = NoRequest /\ get_all_people(h)
    \/ \E h \in GraphHeaders, id \in PersonIds : last = NoRequest /\ get_person(h, id)
    \/ \E h \in GraphHeaders, g \in GivenNames, f \in FamilyNames :
          last = NoRequest /\ create_person(h, g, f) /\ Len(People') <= MaxPeople
    \/ \E h \in GraphHeaders, id \in PersonIds, g \in GivenNames, f \in FamilyNames :
          last = NoRequest /\ update_person(h, id, g, f)
    \/ \E h \in GraphHeaders, id \in PersonIds : last = NoRequest /\ delete_person(h, id)
    \/ \E h \in GraphHeaders : last = NoRequest /\ get_relationship_types(h)
    \/ \E h \in GraphHeaders : last = NoRequest /\ get_relationships(h)
    \/ \E h \in GraphHeaders, id \in RelIdsIn : last = NoRequest /\ get_relationship(h, id)
    \/ \E h \in GraphHeaders, p1 \in OptPersonIds, p2 \in OptPersonIds, t \in TypesIn :
          /\ last = NoRequest
          /\ create_relationship(h, p1, p2, t)
          /\ Cardinality(Relationships') <= MaxRels
    \/ \E h \in GraphHeaders, id \in RelIdsIn, p1 \in OptPersonIds, p2 \in OptPersonIds,
          t \in TypesIn : last = NoRequest /\ update_relationship(h, id, p1, p2, t)
    \/ \E h \in GraphHeaders, id \in RelIdsIn : last = NoRequest /\ delete_relationship(h, id)
    \/ \E h \in GraphHeaders : last = NoRequest /\ list_events(h)
    \/ \E h \in GraphHeaders, id \in EvIdsIn : last = NoRequest /\ get_event(h, id)
    \/ \E h \in GraphHeaders, c \in OptPersonIds, p \in {None}, t \in Titles, d \in Dates :
          /\ last = NoRequest
          /\ create_event(h, c, p, t, d)
          /\ Cardinality(Events') <= MaxEvents
    \/ \E h \in GraphHeaders, id \in EvIdsIn, c \in OptPersonIds, p \in {None}, t \in Titles,
          d \in Dates : last = NoRequest /\ update_event(h, id, c, p, t, d)
    \/ \E h \in GraphHeaders, id \in EvIdsIn : last = NoRequest /\ delete_event(h, id)

SpecGraph == InitGraph /\ [][NextGraph]_vars

---------------------------------------------------------------------------
(* Specification of the sessions: the auth endpoints, the clock and the   *)
(* People endpoints behind the gate, from the empty database              *)

Headers == {None} \cup {<<p, t>> : p \in {"Bearer ", "bearer "}, t \in 1..MaxTokens}

Init ==
    /\ now = 0
    /\ Users = <<>>
    /\ Sessions = {}
    /\ issued = 0
    /\ revoked = {}
    /\ People = <<>>
    /\ Relationships = {}
    /\ Events = {}
    /\ last = NoRequest
    /\ parked = NoRequest

Next ==
    \/ close_db_connection
    \/ \E u \in Usernames, p \in Passwords, e \in {None} :
          last = NoRequest /\ register(u, p, e) /\ Len(Users') <= MaxUsers
    \/ \E u \in Usernames, p \in Passwords :
          last = NoRequest /\ login(u, p) /\ issued' <= MaxTokens
    \/ \E h \in Headers : last = NoRequest /\ logout(h)
    \/ \E h \in Headers : last = NoRequest /\ get_current_user_info(h)
    \/ \E h \in Headers, e \in Emails, p \in {None, <<Short>>} :
          last = NoRequest /\ update_current_user(h, e, p)
    \/ \E d \in {SESSION_EXPIRY_DAYS} : last = NoRequest /\ Tick(d) /\ now' <= MaxTime
    \/ \E u \in 1..MaxUsers : last = NoRequest /\ Deactivate(u)
    \/ \E h \in Headers : last = NoRequest /\ get_all_people(h)
    \/ \E h \in Headers, id \in PersonIds : last = NoRequest /\ get_person(h, id)
    \/ \E h \in Headers, g \in {None, <<"Bob">>}, f \in FamilyNames :
          last = NoRequest /\ create_person(h, g, f) /\ Len(People') <= MaxPeople
    \/ \E h \in Headers, id \in PersonIds, g \in {<<"Bob">>}, f \in FamilyNames :
          last = NoRequest /\ update_person(h, id, g, f)
    \/ \E h \in Headers, id \in PersonIds : last = NoRequest /\ delete_person(h, id)

Spec == Init /\ [][Next]_vars

---------------------------------------------------------------------------
(* Specification of the gate: every protected endpoint under every kind of *)
(* credential, from a state on day 7 in which alice's first session (day   *)
(* 0) has expired, bob has logged in and been deactivated, and alice holds *)
(* a second session and has recorded two people, a relationship between    *)
(* them and an event                                                       *)

GateHeaders == {None, <<"bearer ", 3>>} \cup {<<"Bearer ", t>> : t \in 1..4}

InitGate ==
    /\ now = SESSION_EXPIRY_DAYS
    /\ Users = << [username |-> Alice, password_hash |-> hash_password(Secret1),
                   email |-> <<>>, is_active |-> TRUE],
                  [username |-> StrStrip(Bob), password_hash |-> hash_password(Secret1),
                   email |-> <<>>, is_active |-> FALSE] >>
    /\ Sessions = {[user_id |-> 1, session_token |-> 1, expires_at |-> SESSION_EXPIRY_DAYS],
                   [user_id |-> 2, session_token |-> 2, expires_at |-> 2 * SESSION_EXPIRY_DAYS],
                   [user_id |-> 1, session_token |-> 3, expires_at |-> 2 * SESSION_EXPIRY_DAYS]}
    /\ issued = 3
    /\ revoked = {}
    /\ People = << [user_id |-> 1, given_name |-> <<"Bob">>, family_name |-> <<"Smith">>,
                    is_deleted |-> FALSE, updated_at |-> 0],
                   [user_id |-> 1, given_name |-> <<"Rob">>, family_name |-> <<"Smith">>,
                    is_deleted |-> FALSE, updated_at |-> 0] >>
    /\ Relationships = {[id |-> 1, person1_id |-> 1, person2_id |-> 2, type |-> <<>>]}
    /\ Events = {[id |-> 1, title |-> <<"T">>, event_date |-> None, created_by |-> 1,
                  user_id |-> 1]}
    /\ last = NoRequest
    /\ parked = NoRequest

NextGate ==
    \/ close_db_connection
    \/ \E h \in GateHeaders : last = NoRequest /\ logout(h)
    \/ \E h \in GateHeaders : last = NoRequest /\ get_current_user_info(h)
    \/ \E h \in GateHeaders, e \in Emails, p \in {None} :
          last = NoRequest /\ update_current_user(h, e, p)
    \/ \E h \in GateHeaders : last = NoRequest /\ get_all_people(h)
    \/ \E h \in GateHeaders, id \in PersonIds : last = NoRequest /\ get_person(h, id)
    \/ \E h \in GateHeaders, g \in {<<"Bob">>}, f \in FamilyNames :
          last = NoRequest /\ create_person(h, g, f) /\ Len(People') <= MaxPeople + 1
    \/ \E h \in GateHeaders, id \in PersonIds, g \in {<<"Bob">>}, f \in FamilyNames :
          last = NoRequest /\ update_person(h, id, g, f)
    \/ \E h \in GateHeaders, id \in PersonIds : last = NoRequest /\ delete_person(h, id)
    \/ \E h \in GateHeaders : last = NoRequest /\ get_relationship_types(h)
    \/ \E h \in GateHeaders : last = NoRequest /\ get_relationships(h)
    \/ \E h \in GateHeaders, id \in RelIdsIn : last = NoRequest /\ get_relationship(h, id)
    \/ \E h \in GateHeaders, p1 \in {<<1>>}, p2 \in {<<2>>}, t \in {None} :
          /\ last = NoRequest
          /\ create_relationship(h, p1, p2, t)
          /\ Cardinality(Relationships') <= MaxRels
    \/ \E h \in GateHeaders, id \in RelIdsIn, p1 \in {<<2>>}, p2 \in {<<1>>}, t \in {None} :
          last = NoRequest /\ update_relationship(h, id, p1, p2, t)
    \/ \E h \in GateHeaders, id \in RelIdsIn : last = NoRequest /\ delete_relationship(h, id)
    \/ \E h \in GateHeaders : last = NoRequest /\ list_events(h)
    \/ \E h \in GateHeaders, id \in EvIdsIn : last = NoRequest /\ get_event(h, id)
    \/ \E h \in GateHeaders, c \in {<<1>>}, p \in {None}, t \in {<<"T">>}, d \in Dates :
          /\ last = NoRequest
          /\ create_event(h, c, p, t, d)
          /\ Cardinality(Events') <= MaxEvents
    \/ \E h \in GateHeaders, id \in EvIdsIn, c \in {<<2>>}, p \in {None}, t \in {<<"T">>},
          d \in Dates : last = NoRequest /\ update_event(h, id, c, p, t, d)
    \/ \E h \in GateHeaders, id \in EvIdsIn : last = NoRequest /\ delete_event(h, id)

SpecGate == InitGate /\ [][NextGate]_vars

---------------------------------------------------------------------------
(* Specification of the people: the People endpoints with names that are   *)
(* absent, empty or given, from the state in which alice and bob have      *)
(* registered and each holds one session                                   *)

GivenNamesIn  == {None, <<"">>, <<"Bob">>}
FamilyNamesIn == {None, <<"">>, <<"Smith">>}

NextPeople ==
    \/ close_db_connection
    \/ \E h \in GraphHeaders : last = NoRequest /\ get_all_people(h)
    \/ \E h \in GraphHeaders, id \in PersonIds : last = NoRequest /\ get_person(h, id)
    \/ \E h \in GraphHeaders, g \in GivenNamesIn, f \in FamilyNamesIn :
          last = NoRequest /\ create_person(h, g, f) /\ Len(People') <= MaxPeople
    \/ \E h \in GraphHeaders, id \in PersonIds, g \in GivenNamesIn, f \in FamilyNamesIn :
          last = NoRequest /\ update_person(h, id, g, f)
    \/ \E h \in GraphHeaders, id \in PersonIds : last = NoRequest /\ delete_person(h, id)

SpecPeople == InitGraph /\ [][NextPeople]_vars

---------------------------------------------------------------------------
(* Specification of the accounts: register, login and the profile update   *)
(* with passwords that are absent, empty, too short or long enough, from   *)
(* the empty database                                                      *)

Secret2 == <<"s","e","c","r","e","t","2">>

AccountHeaders == {<<"Bearer ", t>> : t \in 1..MaxTokens}
RegisterPasswords == {<<>>, Short, Secret1}
NewPasswords == {None, <<<<>>>>, <<Short>>, <<Secret2>>}

NextAccounts ==
    \/ close_db_connection
    \/ \E u \in Usernames, p \in RegisterPasswords, e \in {None} :
          last = NoRequest /\ register(u, p, e) /\ Len(Users') <= MaxUsers
    \/ \E u \in Usernames, p \in {Secret1, Secret2} :
          last = NoRequest /\ login(u, p) /\ issued' <= MaxTokens
    \/ \E h \in AccountHeaders : last = NoRequest /\ get_current_user_info(h)
    \/ \E h \in AccountHeaders, e \in Emails, p \in NewPasswords :
          last = NoRequest /\ update_current_user(h, e, p)

SpecAccounts == Init /\ [][NextAccounts]_vars

---------------------------------------------------------------------------
(* Specification of the tokens: login, logout and the clock, where         *)
(* generate_session_token may return any value of a small set, from the    *)
(* state in which alice and bob have registered                            *)

TokenValues == 1..MaxTokens

InitTokens ==
    /\ now = 0
    /\ Users = << [username |-> Alice, password_hash |-> hash_password(Secret1),
                   email |-> <<>>, is_active |-> TRUE],
                  [username |-> StrStrip(Bob), password_hash |-> hash_password(Secret1),
                   email |-> <<>>, is_active |-> TRUE] >>
    /\ Sessions = {}
    /\ issued = 0
    /\ revoked = {}
    /\ People = <<>>
    /\ Relationships = {}
    /\ Events = {}
    /\ last = NoRequest
    /\ parked = NoRequest

NextTokens ==
    \/ close_db_connection
    \/ \E u \in Usernames, p \in {Secret1}, t \in TokenValues :
          last = NoRequest /\ login_with_token(u, p, t) /\ issued' <= 2 * MaxTokens
    \/ \E h \in AccountHeaders : last = NoRequest /\ logout(h)
    \/ \E h \in AccountHeaders : last = NoRequest /\ get_current_user_info(h)
    \/ \E d \in {SESSION_EXPIRY_DAYS} : last = NoRequest /\ Tick(d) /\ now' <= MaxTime

SpecTokens == InitTokens /\ [][NextTokens]_vars

---------------------------------------------------------------------------
(* Specification of the interleaved writes: alice creates and updates      *)
(* relationships and events while her other requests soft-delete the       *)
(* people they refer to, from the state in which she has recorded two      *)
(* people                                                                  *)

RaceHeaders == {<<"Bearer ", 1>>}
RacePersonIds == {<<p>> : p \in PersonIds}

InitRace ==
    /\ now = 0
    /\ Users = << [username |-> Alice, password_hash |-> hash_password(Secret1),
                   email |-> <<>>, is_active |-> TRUE] >>
    /\ Sessions = {[user_id |-> 1, session_token |-> 1, expires_at |-> SESSION_EXPIRY_DAYS]}
    /\ issued = 1
    /\ revoked = {}
    /\ People = [p \in PersonIds |->
                    [user_id |-> 1, given_name |-> <<"Bob">>, family_name |-> <<"Smith">>,
                     is_deleted |-> FALSE, updated_at |-> 0]]
    /\ Relationships = {}
    /\ Events = {}
    /\ last = NoRequest
    /\ parked = NoRequest

NextRace ==
    \/ close_db_connection
    \/ \E h \in RaceHeaders, id \in PersonIds : last = NoRequest /\ delete_person(h, id)
    \/ \E h \in RaceHeaders, p1 \in RacePersonIds, p2 \in RacePersonIds, t \in {None} :
          /\ last = NoRequest
          /\ create_relationship_check(h, p1, p2, t)
    \/ /\ last = NoRequest
       /\ create_relationship_insert
       /\ Cardinality(Relationships') <= MaxRels
    \/ \E h \in RaceHeaders, id \in RelIdsIn, p1 \in RacePersonIds, p2 \in RacePersonIds,
          t \in {None} : last = NoRequest /\ update_relationship_check(h, id, p1, p2, t)
    \/ last = NoRequest /\ update_relationship_write
    \/ \E h \in RaceHeaders, id \in RelIdsIn : last = NoRequest /\ delete_relationship(h, id)
    \/ \E h \in RaceHeaders, c \in RacePersonIds, p \in {None}, t \in {<<"T">>}, d \in Dates :
          last = NoRequest /\ create_event_check(h, c, p, t, d)
    \/ /\ last = NoRequest
       /\ create_event_insert
       /\ Cardinality(Events') <= MaxEvents
    \/ \E h \in RaceHeaders, id \in EvIdsIn, c \in RacePersonIds, p \in {None},
          t \in {<<"T">>}, d \in Dates : last = NoRequest /\ update_event_check(h, id, c, p, t, d)
    \/ last = NoRequest /\ update_event_write
    \/ \E h \in RaceHeaders, id \in EvIdsIn : last = NoRequest /\ delete_event(h, id)

SpecRace == InitRace /\ [][NextRace]_vars

---------------------------------------------------------------------------
(* Specification of the event list: alice and bob record, re-date and      *)
(* delete events of their people and list them, from the state in which    *)
(* alice has recorded person 1 and bob person 2                            *)

MaxListed == 3

ListedEvIds == 1..MaxListed
ListedDates == {None, <<<<"0","9">>>>, <<<<"1","0">>>>}

InitEvents ==
    /\ now = 0
    /\ Users = << [username |-> Alice, password_hash |-> hash_password(Secret1),
                   email |-> <<>>, is_active |-> TRUE],
                  [username |-> StrStrip(Bob), password_hash |-> hash_password(Secret1),
                   email |-> <<>>, is_active |-> TRUE] >>
    /\ Sessions = {[user_id |-> u, session_token |-> u,
                    expires_at |-> SESSION_EXPIRY_DAYS] : u \in 1..2}
    /\ issued = 2
    /\ revoked = {}
    /\ People = [p \in 1..2 |->
                    [user_id |-> p, given_name |-> <<"Bob">>, family_name |-> <<"Smith">>,
                     is_deleted |-> FALSE, updated_at |-> 0]]
    /\ Relationships = {}
    /\ Events = {}
    /\ last = NoRequest
    /\ parked = NoRequest

NextEvents ==
    \/ close_db_connection
    \/ \E h \in GraphHeaders, id \in PersonIds : last = NoRequest /\ delete_person(h, id)
    \/ \E h \in GraphHeaders : last = NoRequest /\ list_events(h)
    \/ \E h \in GraphHeaders, c \in RacePersonIds, d \in ListedDates :
          /\ last = NoRequest
          /\ create_event(h, c, None, <<"T">>, d)
          /\ Cardinality(Events') <= MaxListed
    \/ \E h \in GraphHeaders, id \in ListedEvIds, c \in RacePersonIds, d \in ListedDates :
          last = NoRequest /\ update_event(h, id, c, None, <<"T">>, d)
    \/ \E h \in GraphHeaders, id \in ListedEvIds : last = NoRequest /\ delete_event(h, id)

SpecEvents == InitEvents /\ [][NextEvents]_vars

---------------------------------------------------------------------------
(* Specification of the repeated relationships: alice records, rewrites    *)
(* and deletes relationships between her two people, of the same and of    *)
(* swapped endpoints, from the state in which she has recorded two people  *)

MaxRepeated == 3

RepeatedRelIds == 1..MaxRepeated
RepeatedTypes  == {None, <<<<"F","a","t","h","e","r">>>>}

NextRepeated ==
    \/ close_db_connection
    \/ \E h \in RaceHeaders : last = NoRequest /\ get_relationships(h)
    \/ \E h \in RaceHeaders, p1 \in RacePersonIds, p2 \in RacePersonIds, t \in RepeatedTypes :
          /\ last = NoRequest
          /\ create_relationship(h, p1, p2, t)
          /\ Cardinality(Relationships') <= MaxRepeated
    \/ \E h \in RaceHeaders, id \in RepeatedRelIds, p1 \in RacePersonIds,
          p2 \in RacePersonIds, t \in RepeatedTypes :
          last = NoRequest /\ update_relationship(h, id, p1, p2, t)
    \/ \E h \in RaceHeaders, id \in RepeatedRelIds :
          last = NoRequest /\ delete_relationship(h, id)

SpecRepeated == InitRace /\ [][NextRepeated]_vars

---------------------------------------------------------------------------
(* Specification of the whole service: every endpoint, with and without a  *)
(* credential, with payloads that pass and payloads that fail, and the     *)
(* clock, from the state in which alice and bob have registered and each   *)
(* holds one session                                                       *)

MaxIssued == 3

ServiceHeaders == {None, <<"Bearer ", 1>>, <<"Bearer ", 2>>}
ServicePersonIds == {None, <<1>>, <<2>>}

NextService ==
    \/ close_db_connection
    \/ \E u \in {Alice}, p \in Passwords, e \in {None} :
          last = NoRequest /\ register(u, p, e) /\ Len(Users') <= MaxUsers
    \/ \E u \in {Alice}, p \in Passwords :
          last = NoRequest /\ login(u, p) /\ issued' <= MaxIssued
    \/ \E h \in ServiceHeaders : last = NoRequest /\ logout(h)
    \/ \E h \in ServiceHeaders : last = NoRequest /\ get_current_user_info(h)
    \/ \E h \in ServiceHeaders, e \in Emails, p \in {None, <<Short>>} :
          last = NoRequest /\ update_current_user(h, e, p)
    \/ \E d \in {SESSION_EXPIRY_DAYS} : last = NoRequest /\ Tick(d) /\ now' <= MaxTime
    \/ \E h \in ServiceHeaders : last = NoRequest /\ get_all_people(h)
    \/ \E h \in ServiceHeaders, id \in PersonIds : last = NoRequest /\ get_person(h, id)
    \/ \E h \in ServiceHeaders, g \in {None, <<"Bob">>}, f \in FamilyNames :
          last = NoRequest /\ create_person(h, g, f) /\ Len(People') <= MaxPeople
    \/ \E h \in ServiceHeaders, id \in PersonIds, g \in {<<"Bob">>}, f \in FamilyNames :
          last = NoRequest /\ update_person(h, id, g, f)
    \/ \E h \in ServiceHeaders, id \in PersonIds : last = NoRequest /\ delete_person(h, id)
    \/ \E h \in ServiceHeaders : last = NoRequest /\ get_relationship_types(h)
    \/ \E h \in ServiceHeaders : last = NoRequest /\ get_relationships(h)
    \/ \E h \in ServiceHeaders, id \in RelIdsIn : last = NoRequest /\ get_relationship(h, id)
    \/ \E h \in ServiceHeaders, p1 \in ServicePersonIds, p2 \in ServicePersonIds,
          t \in {None, <<<<"c","o","u","s","i","n">>>>} :
          /\ last = NoRequest
          /\ create_relationship(h, p1, p2, t)
          /\ Cardinality(Relationships') <= MaxRels
    \/ \E h \in ServiceHeaders, id \in RelIdsIn, p1 \in ServicePersonIds,
          p2 \in ServicePersonIds, t \in {None, <<<<"c","o","u","s","i","n">>>>} :
          last = NoRequest /\ update_relationship(h, id, p1, p2, t)
    \/ \E h \in ServiceHeaders, id \in RelIdsIn : last = NoRequest /\ delete_relationship(h, id)
    \/ \E h \in ServiceHeaders : last = NoRequest /\ list_events(h)
    \/ \E h \in ServiceHeaders, id \in EvIdsIn : last = NoRequest /\ get_event(h, id)
    \/ \E h \in ServiceHeaders, c \in ServicePersonIds, t \in Titles :
          /\ last = NoRequest
          /\ create_event(h, c, None, t, None)
          /\ Cardinality(Events') <= MaxEvents
    \/ \E h \in ServiceHeaders, id \in EvIdsIn, c \in ServicePersonIds, t \in Titles :
          last = NoRequest /\ update_event(h, id, c, None, t, None)
    \/ \E h \in ServiceHeaders, id \in EvIdsIn : last = NoRequest /\ delete_event(h, id)

SpecService == InitGraph /\ [][NextService]_vars

---------------------------------------------------------------------------
(* Specification of the interleaved registrations: a register served      *)
(* while another one is suspended between its lookup and its INSERT, from  *)
(* the empty database                                                      *)

NextRegister ==
    \/ close_db_connection
    \/ \E u \in Usernames, p \in RegisterPasswords, e \in {None} :
          last = NoRequest /\ register(u, p, e) /\ Len(Users') <= MaxUsers
    \/ \E u \in Usernames, p \in {Secret1, Secret2}, e \in {None} :
          last = NoRequest /\ register_lookup(u, p, e)
    \/ register_insert /\ Len(Users') <= MaxUsers

SpecRegister == Init /\ [][NextRegister]_vars

---------------------------------------------------------------------------
(* Vocabulary of the properties *)

ProtectedOps ==
    {"logout", "get_current_user_info", "update_current_user",
     "get_all_people", "get_person", "create_person", "update_person", "delete_person",
     "get_relationship_types", "get_relationships", "get_relationship",
     "create_relationship", "update_relationship", "delete_relationship",
     "list_events", "get_event", "create_event", "update_event", "delete_event"}

PersonOps == {"get_person", "update_person", "delete_person"}
RelOps    == {"get_relationship", "update_relationship", "delete_relationship"}
EventOps  == {"get_event", "update_event", "delete_event"}

\* The owners of a relationship's endpoints
RelOwners(r) == {People[r.person1_id].user_id, People[r.person2_id].user_id}

\* The request whose response is last' was sent by an authenticated caller
Called(ops) == last'.op \in ops /\ last'.user # 0

---------------------------------------------------------------------------
(* C1  Ownership isolation (state).  Whatever a list or get returns to a   *)
(* caller is owned by that caller (a person by user_id, a relationship by  *)
(* both endpoints, an event by user_id), and no step taken for a caller    *)
(* changes or removes a person, relationship or event of another user.     *)
C1_OwnershipIsolation ==
    [][ /\ Called({"get_all_people", "get_person"}) =>
             \A p \in last'.data : People[p].user_id = last'.user
        /\ Called({"get_relationships", "get_relationship"}) =>
             \A r \in Relationships : r.id \in last'.data => RelOwners(r) = {last'.user}
        /\ Called({"get_event"}) =>
             \A e \in Events : e.id \in last'.data => e.user_id = last'.user
        /\ Called({"list_events"}) =>
             \A e \in Events : (\E i \in DOMAIN last'.data : last'.data[i] = e.id)
                                   => e.user_id = last'.user
        /\ \A p \in 1..Len(People) :
             People[p].user_id # last'.user => Len(People') >= p /\ People'[p] = People[p]
        /\ \A r \in Relationships :
             last'.user \notin RelOwners(r) => r \in Relationships'
        /\ \A e \in Events :
             e.user_id # last'.user => e \in Events'
      ]_vars

\* bob's delete of alice's relationship has been answered
C1_Witness ==
    /\ last.op = "delete_relationship"
    /\ last.user # 0
    /\ \E r \in Relationships : r.id = last.id /\ last.user \notin RelOwners(r)

---------------------------------------------------------------------------
(* C2  Ownership isolation (outcome).  A get, update or delete of a        *)
(* person, relationship or event that belongs to another user answers 404, *)
(* whatever the payload.                                                   *)
ForeignTarget(op, id, user) ==
    \/ op \in PersonOps /\ id \in 1..Len(People) /\ People[id].user_id # user
    \/ op \in RelOps /\ \E r \in Relationships : r.id = id /\ user \notin RelOwners(r)
    \/ op \in EventOps /\ \E e \in Events : e.id = id /\ e.user_id # user

C2_ForeignIsNotFound ==
    [][ (Called(PersonOps \cup RelOps \cup EventOps)
           /\ ForeignTarget(last'.op, last'.id, last'.user))
        => last'.status = 404 ]_vars

---------------------------------------------------------------------------
(* C3  Authorization gate.  A protected endpoint called with no header,    *)
(* with a header that does not start with "Bearer ", with a token no       *)
(* session holds, with the token of an expired session or with the token   *)
(* of an inactive user's session answers 401 and changes no table.         *)
MissingCredential(h) == h = None
NoBearerPrefix(h)    == h # None /\ h[1] # "Bearer "
UnknownToken(h)      == h # None /\ \A s \in Sessions : s.session_token # h[2]
ExpiredToken(h)      == h # None /\ \E s \in Sessions :
                            s.session_token = h[2] /\ s.expires_at <= now
InactiveUser(h)      == h # None /\ \E s \in Sessions :
                            s.session_token = h[2] /\ ~Users[s.user_id].is_active

C3_GateRejects ==
    [][ (/\ last'.op \in ProtectedOps
         /\ \/ MissingCredential(last'.hdr)
            \/ NoBearerPrefix(last'.hdr)
            \/ UnknownToken(last'.hdr)
            \/ ExpiredToken(last'.hdr)
            \/ InactiveUser(last'.hdr))
        => last'.status = 401 /\ UNCHANGED db ]_vars

\* delete_event, carrying the unexpired token of deactivated bob, has been
\* answered while alice's event is stored
C3_Witness ==
    /\ last.op = "delete_event"
    /\ last.hdr = <<"Bearer ", 2>>
    /\ last.status = 401
    /\ \E s \in Sessions : s.session_token = 2 /\ s.expires_at > now
                            /\ ~Users[s.user_id].is_active
    /\ Events # {}

---------------------------------------------------------------------------
(* C4  Session resolution.  A protected endpoint is answered for a user    *)
(* only if a session row holds the bearer token, its expires_at is after   *)
(* the current time and its user is active, and then for that user.  A     *)
(* stored session whose expires_at is not after the current time stays so  *)
(* and authenticates no request.                                           *)
C4_SessionResolution ==
    [][ /\ (last'.op \in ProtectedOps /\ last'.status # 401) =>
             /\ last'.hdr # None
             /\ last'.hdr[1] = "Bearer "
             /\ \E s \in Sessions :
                   /\ s.session_token = last'.hdr[2]
                   /\ s.expires_at > now
                   /\ Users[s.user_id].is_active
                   /\ last'.user = s.user_id
        /\ \A s \in Sessions : s.expires_at <= now =>
             /\ s \in Sessions' => s.expires_at <= now'
             /\ (last'.op \in ProtectedOps /\ last'.hdr = <<"Bearer ", s.session_token>>)
                  => last'.status = 401
      ]_vars

\* a request carrying the token of a session that expired this very day
\* has been rejected, and the session row is still stored
C4_Witness ==
    /\ last.op \in ProtectedOps
    /\ last.status = 401
    /\ last.hdr # None
    /\ last.hdr[1] = "Bearer "
    /\ \E s \in Sessions : /\ s.session_token = last.hdr[2]
                           /\ s.expires_at = now
                           /\ Users[s.user_id].is_active

---------------------------------------------------------------------------
(* C5  Revocation.  A successful logout revokes the token it carried; a    *)
(* revoked token stays revoked, and every later protected request that     *)
(* carries it answers 401.                                                 *)
C5_RevokedStaysOut ==
    [][ /\ (last'.op = "logout" /\ last'.status = 200) =>
             /\ last'.hdr[2] \in revoked'
             /\ \A s \in Sessions' : s.session_token # last'.hdr[2]
        /\ revoked \subseteq revoked'
        /\ \A t \in revoked :
             (last'.op \in ProtectedOps /\ last'.hdr = <<"Bearer ", t>>)
               => last'.status = 401
      ]_vars

\* a request carrying a revoked token has been rejected on the day the
\* token was issued, its user still active
C5_Witness ==
    /\ last.op \in ProtectedOps
    /\ last.status = 401
    /\ last.hdr # None
    /\ last.hdr[1] = "Bearer "
    /\ last.hdr[2] \in revoked
    /\ now = 0
    /\ \A u \in 1..Len(Users) : Users[u].is_active

---------------------------------------------------------------------------
(* C6  Soft-delete visibility.  A successful delete_person sets is_deleted *)
(* on the row; from then on the row stays stored, deleted and with the     *)
(* same owner, get_person of it by its owner answers 404 and               *)
(* get_all_people of its owner does not return it.                         *)
C6_SoftDeleteVisibility ==
    [][ /\ (last'.op = "delete_person" /\ last'.status = 200) =>
             /\ last'.id \in 1..Len(People')
             /\ People'[last'.id].is_deleted
             /\ People'[last'.id].user_id = last'.user
        /\ \A p \in 1..Len(People) : People[p].is_deleted =>
             /\ p \in 1..Len(People')
             /\ People'[p].is_deleted
             /\ People'[p].user_id = People[p].user_id
             /\ (Called({"get_person"}) /\ last'.id = p
                   /\ last'.user = People[p].user_id) => last'.status = 404
             /\ (Called({"get_all_people"}) /\ last'.user = People[p].user_id)
                  => p \notin last'.data
      ]_vars

\* get_all_people has been answered for the owner of a deleted person who
\* also owns a visible one
C6_Witness ==
    /\ last.op = "get_all_people"
    /\ last.status = 200
    /\ last.data # {}
    /\ \E p \in 1..Len(People) : People[p].is_deleted /\ People[p].user_id = last.user

---------------------------------------------------------------------------
(* C7  Repeated soft delete.  delete_person and update_person of a person  *)
(* that its owner has already deleted answer 404 and change no table: the  *)
(* row keeps is_deleted and the updated_at of the first delete.            *)
C7_DeletedPersonIsNotFound ==
    [][ (/\ Called({"delete_person", "update_person"})
         /\ last'.id \in 1..Len(People)
         /\ People[last'.id].is_deleted
         /\ People[last'.id].user_id = last'.user)
        => last'.status = 404 /\ UNCHANGED db ]_vars

\* a second delete_person by the owner has been answered on a later day
\* than the first
C7_Witness ==
    /\ last.op = "delete_person"
    /\ last.status = 404
    /\ last.id \in 1..Len(People)
    /\ People[last.id].is_deleted
    /\ People[last.id].user_id = last.user
    /\ People[last.id].updated_at < now

---------------------------------------------------------------------------
(* Vocabulary of the relationship properties *)

\* The payload of the relationship request answered by last'
Person1 == last'.body[1]
Person2 == last'.body[2]
TypeIn  == last'.body[3]

\* The relationship exists and both its endpoints belong to the user
RelVisible(id, user) == \E r \in Relationships : r.id = id /\ RelOwners(r) = {user}

\* The id names a stored, non-deleted person of the user
PersonUsable(id, user) ==
    id # None /\ id[1] \in 1..Len(People)
    /\ People[id[1]].user_id = user /\ ~People[id[1]].is_deleted

\* The closed set, in lowercase
ClaimTypes ==
    { <<"f","a","t","h","e","r">>, <<"m","o","t","h","e","r">>,
      <<"b","r","o","t","h","e","r">>, <<"s","i","s","t","e","r">>,
      <<"h","u","s","b","a","n","d">>, <<"w","i","f","e">> }

SelfMessage == "A person cannot have a relationship with themselves"

---------------------------------------------------------------------------
(* C8 as stated.  No relationship row has person1_id = person2_id, and     *)
(* create and update with person1_id = person2_id answer 400 whatever the  *)
(* type and leave Relationships as it was.                                 *)
C8_SelfAlwaysValidationError ==
    [][ /\ \A r \in Relationships' : r.person1_id # r.person2_id
        /\ (/\ Called({"create_relationship", "update_relationship"})
            /\ Person1 # None
            /\ Person1 = Person2)
             => last'.status = 400 /\ UNCHANGED Relationships
      ]_vars

(* C8 as amended.  No relationship row has person1_id = person2_id.        *)
(* create with person1_id = person2_id answers 400 whatever the type;      *)
(* update with person1_id = person2_id answers 400 when the relationship   *)
(* exists with both endpoints owned by the caller and 404 otherwise; the   *)
(* 400 carries the self-relationship message when the id is a non-zero     *)
(* integer; in every case Relationships is left as it was.                 *)
C8_NoSelfRelationship ==
    [][ /\ \A r \in Relationships' : r.person1_id # r.person2_id
        /\ (Called({"create_relationship", "update_relationship"}) /\ Person1 = Person2)
             => /\ UNCHANGED Relationships
                /\ last'.status =
                     IF last'.op = "update_relationship" /\ ~RelVisible(last'.id, last'.user)
                     THEN 404 ELSE 400
                /\ (last'.status = 400 /\ Person1 \notin {None, <<0>>})
                     => last'.error = SelfMessage
      ]_vars

\* update of a stored relationship with person1_id = person2_id and a type
\* outside the set has been answered with the self-relationship message
C8_Witness ==
    /\ last.op = "update_relationship"
    /\ last.status = 400
    /\ last.error = SelfMessage
    /\ last.body[1] = last.body[2]
    /\ last.body[3] = <<<<"c","o","u","s","i","n">>>>
    /\ Relationships # {}

---------------------------------------------------------------------------
(* C9 as stated.  Every relationship row has an empty type or one of the   *)
(* six lowercase types; create and update with a non-empty type that does  *)
(* not match the set up to case answer 400 and store nothing; a type that  *)
(* is accepted is stored in lowercase.                                     *)
C9_TypeClosureAsStated ==
    [][ /\ \A r \in Relationships' : r.type = <<>> \/ r.type \in ClaimTypes
        /\ (/\ Called({"create_relationship", "update_relationship"})
            /\ TruthyChars(TypeIn)
            /\ StrLower(TypeIn[1]) \notin ClaimTypes)
             => last'.status = 400 /\ UNCHANGED Relationships
      ]_vars

(* C9 as amended.  Every relationship row has an empty type or one of the  *)
(* six lowercase types.  With a type that, stripped of surrounding         *)
(* whitespace, is non-empty and does not match the set up to case, create  *)
(* answers 400, update answers 400 when the relationship exists with both  *)
(* endpoints owned by the caller and 404 otherwise, and nothing is stored. *)
(* A create whose endpoints are two distinct usable people of the caller   *)
(* and whose type matches (in any case, also padded) answers 201, and      *)
(* every row written carries the type stripped and in lowercase.           *)
C9_TypeClosure ==
    [][ /\ \A r \in Relationships' : r.type = <<>> \/ r.type \in ClaimTypes
        /\ (/\ Called({"create_relationship", "update_relationship"})
            /\ StrStrip(OrEmpty(TypeIn)) # <<>>
            /\ StrLower(StrStrip(OrEmpty(TypeIn))) \notin ClaimTypes)
             => /\ UNCHANGED Relationships
                /\ last'.status =
                     IF last'.op = "update_relationship" /\ ~RelVisible(last'.id, last'.user)
                     THEN 404 ELSE 400
        /\ (/\ Called({"create_relationship"})
            /\ StrLower(StrStrip(OrEmpty(TypeIn))) \in ClaimTypes
            /\ Person1 # Person2
            /\ PersonUsable(Person1, last'.user)
            /\ PersonUsable(Person2, last'.user))
             => last'.status = 201
        /\ (Called({"create_relationship"}) /\ last'.status = 201)
             => \E r \in Relationships' \ Relationships :
                   r.id \in last'.data /\ r.type = StrLower(StrStrip(OrEmpty(TypeIn)))
        /\ (Called({"update_relationship"}) /\ last'.status = 200)
             => \E r \in Relationships' :
                   r.id = last'.id /\ r.type = StrLower(StrStrip(OrEmpty(TypeIn)))
      ]_vars

\* a create carrying "Father" has been answered 201 and the row holds
\* "father"
C9_Witness ==
    /\ last.op = "create_relationship"
    /\ last.status = 201
    /\ last.body[3] = <<<<"F","a","t","h","e","r">>>>
    /\ \E r \in Relationships : r.id \in last.data /\ r.type = <<"f","a","t","h","e","r">>

---------------------------------------------------------------------------
(* C10  Validation order of create.  The answer of create_relationship is  *)
(* that of the first failing check among: an endpoint id missing; the two  *)
(* ids equal; a non-empty type outside the set; the endpoints not both     *)
(* usable people of the caller.  A row is inserted exactly when none       *)
(* fails.                                                                  *)
FirstFailingCheck(missing1, missing2) ==
    IF missing1 \/ missing2
    THEN "Both people are required"
    ELSE IF Person1 = Person2
    THEN SelfMessage
    ELSE IF /\ StrLower(StrStrip(OrEmpty(TypeIn))) # <<>>
            /\ StrLower(StrStrip(OrEmpty(TypeIn))) \notin ClaimTypes
    THEN "Invalid relationship type"
    ELSE IF ~(PersonUsable(Person1, last'.user) /\ PersonUsable(Person2, last'.user))
    THEN "Both people must exist and belong to the current user"
    ELSE ""

CreateAnswers(expected) ==
    /\ last'.error = expected
    /\ expected # "" => last'.status = 400 /\ UNCHANGED Relationships
    /\ expected = "" =>
         /\ last'.status = 201
         /\ \E r \in Relationships' \ Relationships :
               /\ Relationships' = Relationships \cup {r}
               /\ r.person1_id = Person1[1]
               /\ r.person2_id = Person2[1]

C10_CreateValidationOrder ==
    [][ Called({"create_relationship"})
          => CreateAnswers(FirstFailingCheck(Person1 = None, Person2 = None)) ]_vars

\* The same order with an id of 0 counted as missing, which is what the
\* code does
C10_OrderWithZeroAsMissing ==
    [][ Called({"create_relationship"})
          => CreateAnswers(FirstFailingCheck(Person1 \in {None, <<0>>},
                                             Person2 \in {None, <<0>>})) ]_vars

---------------------------------------------------------------------------
\* The id names a stored person that is not soft-deleted
LivePerson(id) == id \in 1..Len(People) /\ ~People[id].is_deleted

(* C11  Referential non-deletion.  In every state both endpoints of every  *)
(* stored relationship, and the created_by person of every stored event,   *)
(* are stored people that are not soft-deleted.                            *)
C11_ReferencedPersonsLive ==
    /\ \A r \in Relationships : LivePerson(r.person1_id) /\ LivePerson(r.person2_id)
    /\ \A e \in Events : LivePerson(e.created_by)

---------------------------------------------------------------------------
\* The relationships whose endpoints are both live people of the user
LiveRelationships(user) ==
    {r \in Relationships :
        /\ LivePerson(r.person1_id) /\ People[r.person1_id].user_id = user
        /\ LivePerson(r.person2_id) /\ People[r.person2_id].user_id = user}

(* C12  Relationship get agrees with list.  get_relationship answers 200   *)
(* exactly when the id is among the rows get_relationships returns to the  *)
(* same caller, which are the relationships whose endpoints are both live  *)
(* people of the caller; otherwise it answers 404.                         *)
C12_GetAgreesWithList ==
    [][ /\ Called({"get_relationships"})
           => last'.data = {r.id : r \in LiveRelationships(last'.user)}
        /\ Called({"get_relationship"})
           => /\ last'.status \in {200, 404}
              /\ last'.status = 200
                   <=> last'.id \in {r.id : r \in SelectRelationships(last'.user)}
      ]_vars

---------------------------------------------------------------------------
\* The person an event request refers to, and its title
EventSubject == EventPerson(last'.body[1], last'.body[2])
EventTitle   == StrStrip(last'.body[3])

\* The event request carries a person id and a non-blank title
EventPayloadValid == TruthyInt(EventSubject) /\ EventTitle # <<>>

\* The event exists and belongs to the user
EventVisible(id, user) == \E e \in Events : e.id = id /\ e.user_id = user

(* C13  Event subject check.  create_event and update_event succeed only   *)
(* if the referenced person is a live person of the caller; a request      *)
(* that names a person and a title but whose person is not such a person   *)
(* answers 404 and leaves Events unchanged.  update_event answers 404 and  *)
(* leaves Events unchanged whenever the event does not exist or is not     *)
(* owned by the caller.                                                    *)
C13_EventSubjectCheck ==
    [][ /\ (Called({"create_event", "update_event"}) /\ last'.status \in {200, 201})
           => PersonUsable(EventSubject, last'.user)
        /\ (/\ Called({"create_event", "update_event"})
            /\ EventPayloadValid
            /\ ~PersonUsable(EventSubject, last'.user))
           => last'.status = 404 /\ UNCHANGED Events
        /\ (Called({"update_event"}) /\ ~EventVisible(last'.id, last'.user))
           => last'.status = 404 /\ UNCHANGED Events
      ]_vars

\* The same with the lookup of the event placed after the validation of
\* the payload, which is what update_event does
C13_SubjectCheckAfterValidation ==
    [][ /\ (Called({"create_event", "update_event"}) /\ last'.status \in {200, 201})
           => PersonUsable(EventSubject, last'.user)
        /\ (Called({"create_event", "update_event"}) /\ ~EventPayloadValid)
           => last'.status = 400 /\ UNCHANGED Events
        /\ (/\ Called({"create_event", "update_event"})
            /\ EventPayloadValid
            /\ ~PersonUsable(EventSubject, last'.user))
           => last'.status = 404 /\ UNCHANGED Events
        /\ (/\ Called({"update_event"})
            /\ EventPayloadValid
            /\ ~EventVisible(last'.id, last'.user))
           => last'.status = 404 /\ UNCHANGED Events
      ]_vars

---------------------------------------------------------------------------
\* delete_event's effect and answers
DeleteEventEffect ==
    /\ (Called({"delete_event"}) /\ EventVisible(last'.id, last'.user))
       => /\ last'.status = 200
          /\ \E e \in Events : e.id = last'.id /\ Events' = Events \ {e}
          /\ \A e \in Events' : e.id # last'.id
          /\ UNCHANGED <<Users, Sessions, People, Relationships>>
    /\ (Called({"delete_event"}) /\ ~EventVisible(last'.id, last'.user))
       => last'.status = 404 /\ UNCHANGED db

(* C14  Event delete is a hard delete scoped by (id, user_id).  A          *)
(* successful delete_event removes exactly the event row with that id and  *)
(* changes no other row; a delete_event whose id matches no event of the   *)
(* caller answers 404 and changes nothing; get_event, update_event and     *)
(* delete_event of an id that is not stored answer 404.                    *)
C14_EventHardDelete ==
    [][ /\ DeleteEventEffect
        /\ (/\ Called({"get_event", "update_event", "delete_event"})
            /\ \A e \in Events : e.id # last'.id)
           => last'.status = 404 /\ UNCHANGED db
      ]_vars

\* The same where the update of the removed id carries a person id and a
\* title
C14_HardDeleteValidUpdate ==
    [][ /\ DeleteEventEffect
        /\ (/\ Called({"get_event", "update_event", "delete_event"})
            /\ last'.op = "update_event" => EventPayloadValid
            /\ \A e \in Events : e.id # last'.id)
           => last'.status = 404 /\ UNCHANGED db
      ]_vars

---------------------------------------------------------------------------
(* C15  Required names.  In every state every person that is not           *)
(* soft-deleted has a non-empty given_name and a non-empty family_name;    *)
(* create_person answers 400 and inserts nothing unless both are           *)
(* non-empty.                                                              *)
C15_RequiredNames ==
    [][ /\ \A p \in 1..Len(People') :
              ~People'[p].is_deleted
                 => TruthyStr(People'[p].given_name) /\ TruthyStr(People'[p].family_name)
        /\ (/\ Called({"create_person"})
            /\ ~(TruthyStr(last'.body[1]) /\ TruthyStr(last'.body[2])))
           => last'.status = 400 /\ UNCHANGED People
      ]_vars

\* The part of it that is about create_person: the row it inserts carries
\* the two names of the request, both non-empty
C15_CreateRequiresNames ==
    [][ Called({"create_person"})
          => IF TruthyStr(last'.body[1]) /\ TruthyStr(last'.body[2])
             THEN /\ last'.status = 201
                  /\ Len(People') = Len(People) + 1
                  /\ People'[Len(People')].given_name = last'.body[1]
                  /\ People'[Len(People')].family_name = last'.body[2]
             ELSE last'.status = 400 /\ UNCHANGED People
      ]_vars

---------------------------------------------------------------------------
\* The request answered by last' is a register of this username (stripped)
RegisterName == StrStrip(last'.body[1])

(* C16  Registration conflict.  register with a username that is already   *)
(* stored answers 400 and leaves Users unchanged, with the message         *)
(* "Username already exists" when the request is otherwise well-formed;    *)
(* the usernames of the stored users are pairwise distinct.                *)
C16_RegistrationConflict ==
    [][ /\ \A i, j \in 1..Len(Users') :
              Users'[i].username = Users'[j].username => i = j
        /\ (/\ last'.op = "register"
            /\ \E i \in 1..Len(Users) : Users[i].username = RegisterName)
           => /\ last'.status = 400
              /\ UNCHANGED Users
              /\ Len(last'.body[2]) >= MIN_PASSWORD_LENGTH
                    => last'.error = "Username already exists"
      ]_vars

\* alice and bob are registered and a second register of a stored username
\* with a well-formed password has been refused
C16_Witness ==
    /\ Len(Users) = 2
    /\ last.op = "register"
    /\ last.status = 400
    /\ last.error = "Username already exists"
    /\ last.body[2] = Secret1

---------------------------------------------------------------------------
\* Every stored password_hash is the hash of a password of at least 6
\* characters, in the state after the step
StoredPasswordsLong ==
    \A i \in 1..Len(Users') :
        /\ Users'[i].password_hash[1] = "sha256"
        /\ Len(Users'[i].password_hash[2]) >= 6

(* C17 as stated.  register and update_current_user with a password        *)
(* shorter than 6 characters answer 400 and leave Users unchanged; every   *)
(* stored password_hash is the hash of a password of at least 6            *)
(* characters.                                                             *)
C17_ShortPasswordRejected ==
    [][ /\ (last'.op = "register" /\ Len(last'.body[2]) < 6)
           => last'.status = 400 /\ UNCHANGED Users
        /\ (/\ Called({"update_current_user"})
            /\ last'.body[2] # None
            /\ Len(last'.body[2][1]) < 6)
           => last'.status = 400 /\ UNCHANGED Users
        /\ StoredPasswordsLong
      ]_vars

(* C17 as amended.  register with a password shorter than 6 characters     *)
(* answers 400 and leaves Users unchanged; update_current_user with a      *)
(* non-empty password shorter than 6 characters answers 400 and leaves     *)
(* Users unchanged, the email of the request included; an empty password   *)
(* in update_current_user is no password change and never alters           *)
(* password_hash; every stored password_hash is the hash of a password of  *)
(* at least 6 characters.                                                  *)
C17_MinimumPasswordLength ==
    [][ /\ (last'.op = "register" /\ Len(last'.body[2]) < 6)
           => last'.status = 400 /\ UNCHANGED Users
        /\ (/\ Called({"update_current_user"})
            /\ last'.body[2] # None
            /\ last'.body[2][1] # <<>>
            /\ Len(last'.body[2][1]) < 6)
           => last'.status = 400 /\ UNCHANGED Users
        /\ (/\ Called({"update_current_user"})
            /\ last'.body[2] \in {None, <<<<>>>>})
           => \A i \in 1..Len(Users) : Users'[i].password_hash = Users[i].password_hash
        /\ StoredPasswordsLong
      ]_vars

\* a profile update carrying an email and a 5-character password has been
\* refused, after an earlier update had set a new password
C17_Witness ==
    /\ last.op = "update_current_user"
    /\ last.status = 400
    /\ last.body = << <<<<"a","@","x"," ">>>>, <<Short>> >>
    /\ Users[last.user].email = <<>>
    /\ Users[last.user].password_hash = hash_password(Secret2)

---------------------------------------------------------------------------
(* C18  Session token uniqueness.  A successful login issues a token that  *)
(* no stored session carries and stores exactly one session with it; no    *)
(* two stored sessions share a token; a header resolves to at most one     *)
(* user.                                                                   *)
C18_TokenUniqueness ==
    [][ /\ (last'.op = "login" /\ last'.status = 200)
           => \E t \in last'.data :
                 /\ last'.data = {t}
                 /\ \A s \in Sessions : s.session_token # t
                 /\ \E s \in Sessions' :
                       /\ s.session_token = t
                       /\ s.user_id = last'.user
                       /\ Sessions' = Sessions \cup {s}
        /\ \A s1, s2 \in Sessions' : s1.session_token = s2.session_token => s1 = s2
        /\ Called({"get_current_user_info"}) => last'.data = {last'.user}
      ]_vars

\* a login has been refused because its token was that of a stored
\* session, and that session still resolves to its user alone
C18_Witness ==
    /\ last.op = "login"
    /\ last.status = 500
    /\ \E s \in Sessions :
          /\ s.expires_at > now
          /\ s.user_id # last.user
          /\ get_current_user(<<"Bearer ", s.session_token>>) = {s.user_id}

---------------------------------------------------------------------------
(* C19  Validate-then-act atomicity.  Under every interleaving of the      *)
(* relationship and event writes with soft deletes of the same user, no    *)
(* relationship or event row is written that refers to a person who is     *)
(* soft-deleted at the moment of the write.                                *)
C19_WritesReferToLivePeople ==
    [][ /\ \A r \in Relationships' \ Relationships :
              LivePerson(r.person1_id) /\ LivePerson(r.person2_id)
        /\ \A e \in Events' \ Events : LivePerson(e.created_by)
      ]_vars

---------------------------------------------------------------------------
\* The rows of Users' with this username
RowsNamed(name) == {i \in 1..Len(Users') : Users'[i].username = name}

(* C20  Concurrent registration.  When a register that has passed its      *)
(* username lookup runs its INSERT after another register of the same      *)
(* username, served in between, has inserted, it answers 400 and adds no   *)
(* row; of the two at most one answers 201; in every case exactly one      *)
(* user row with that username exists afterwards and the stored usernames  *)
(* are pairwise distinct.                                                  *)
C20_ConcurrentRegistration ==
    [][ /\ \A i, j \in 1..Len(Users') :
              Users'[i].username = Users'[j].username => i = j
        /\ (parked.op = "register" /\ parked' = NoRequest)
           => /\ last'.op = "register"
              /\ last'.status \in {201, 400}
              /\ Cardinality(RowsNamed(StrStrip(parked.body[1]))) = 1
              /\ (\E i \in 1..Len(Users) : Users[i].username = StrStrip(parked.body[1]))
                    => last'.status = 400 /\ UNCHANGED Users
              /\ (/\ last.op = "register"
                  /\ last.status = 201
                  /\ StrStrip(last.body[1]) = StrStrip(parked.body[1]))
                    => last'.status = 400
      ]_vars

\* a register has been refused at its INSERT, having passed its lookup,
\* and the username is stored once
C20_Witness ==
    /\ last.op = "register"
    /\ last.status = 400
    /\ last.error = "Username or email already exists"
    /\ Cardinality({i \in 1..Len(Users) : Users[i].username = StrStrip(last.body[1])}) = 1

---------------------------------------------------------------------------
(* C21  Ownership consistency.  In every state the two endpoints of every  *)
(* relationship row are stored people owned by one and the same user, and  *)
(* the user_id of every event row is the user_id of the person its         *)
(* created_by refers to.                                                   *)
C21_OwnershipConsistency ==
    /\ \A r \in Relationships :
          /\ r.person1_id \in 1..Len(People)
          /\ r.person2_id \in 1..Len(People)
          /\ People[r.person1_id].user_id = People[r.person2_id].user_id
    /\ \A e \in Events :
          /\ e.created_by \in 1..Len(People)
          /\ e.user_id = People[e.created_by].user_id

\* a relationship is stored and an update has moved an event to another
\* person of its owner
C21_Witness ==
    /\ last.op = "update_event"
    /\ last.status = 200
    /\ Relationships # {}
    /\ \E e \in Events : e.id = last.id /\ e.created_by = 2 /\ e.user_id = last.user

---------------------------------------------------------------------------
\* The update request keeps the endpoints of the stored relationship
KeepsEndpoints ==
    \E r \in Relationships :
        /\ r.id = last'.id
        /\ Person1 = <<r.person1_id>>
        /\ Person2 = <<r.person2_id>>

(* C22  Relationship update check order.  update_relationship answers 404  *)
(* and changes nothing when the relationship does not exist or is not      *)
(* owned by the caller, whatever the payload.  Otherwise it answers 400    *)
(* and changes nothing when one of the four checks of create fails, with   *)
(* the message of the first failing check when the ids are not 0, and it   *)
(* answers 200 and writes the payload into the row when none fails.  The   *)
(* endpoints are verified also when they are the stored ones: an update    *)
(* that keeps an endpoint soft-deleted since answers 400.                  *)
C22_UpdateCheckOrder ==
    [][ Called({"update_relationship"})
          => IF ~RelVisible(last'.id, last'.user)
             THEN last'.status = 404 /\ UNCHANGED Relationships
             ELSE IF FirstFailingCheck(Person1 = None, Person2 = None) # ""
             THEN /\ last'.status = 400
                  /\ UNCHANGED Relationships
                  /\ (Person1 # <<0>> /\ Person2 # <<0>>)
                        => last'.error = FirstFailingCheck(Person1 = None, Person2 = None)
                  /\ (/\ KeepsEndpoints
                      /\ ~(LivePerson(Person1[1]) /\ LivePerson(Person2[1]))
                      /\ StrLower(StrStrip(OrEmpty(TypeIn))) \in ClaimTypes \cup {<<>>})
                        => last'.error = "Both people must exist and belong to the current user"
             ELSE /\ last'.status = 200
                  /\ \E r \in Relationships' :
                        /\ r.id = last'.id
                        /\ r.person1_id = Person1[1]
                        /\ r.person2_id = Person2[1]
                        /\ r.type = StrLower(StrStrip(OrEmpty(TypeIn)))
                  /\ \A r \in Relationships' : r.id # last'.id => r \in Relationships
      ]_vars

\* an update that keeps the stored endpoints, one of them soft-deleted
\* since, has been answered 400
C22_Witness ==
    /\ last.op = "update_relationship"
    /\ last.status = 400
    /\ last.error = "Both people must exist and belong to the current user"
    /\ \E r \in Relationships :
          /\ r.id = last.id
          /\ last.body[1] = <<r.person1_id>>
          /\ last.body[2] = <<r.person2_id>>
          /\ People[r.person1_id].is_deleted \/ People[r.person2_id].is_deleted

---------------------------------------------------------------------------
\* the day a zero-padded two-digit text stands for
DateValue(d) == 10 * (CharCode(d[1][1]) - 2) + (CharCode(d[1][2]) - 2)

\* the stored event with this id
EventRow(id) == CHOOSE e \in Events : e.id = id

(* C23  Event list content and order.  list_events returns each event      *)
(* whose user_id is the caller exactly once and no other event, whether    *)
(* or not its subject person is soft-deleted; in the list every event      *)
(* with a date precedes every event without one, dates are descending,     *)
(* and events of equal date, or both without date, are by id descending.   *)
C23_EventListOrder ==
    [][ Called({"list_events"})
          => LET data == last'.data
                 n    == Len(data)
             IN  /\ last'.status = 200
                 /\ {data[i] : i \in 1..n} = {e.id : e \in {x \in Events : x.user_id = last'.user}}
                 /\ \A i, j \in 1..n : i # j => data[i] # data[j]
                 /\ \A i, j \in 1..n :
                       i < j =>
                         LET a == EventRow(data[i])
                             b == EventRow(data[j])
                         IN  /\ a.event_date = None => b.event_date = None
                             /\ (a.event_date # None /\ b.event_date # None)
                                   => DateValue(a.event_date) >= DateValue(b.event_date)
                             /\ (\/ a.event_date = None /\ b.event_date = None
                                 \/ /\ a.event_date # None /\ b.event_date # None
                                    /\ DateValue(a.event_date) = DateValue(b.event_date))
                                   => a.id > b.id
      ]_vars

\* a list of three events has been returned: one without date, two of
\* different dates, the subject person soft-deleted
C23_Witness ==
    /\ last.op = "list_events"
    /\ last.status = 200
    /\ Len(last.data) = 3
    /\ People[last.user].is_deleted
    /\ \E e \in Events : e.user_id = last.user /\ e.event_date = None
    /\ \E e, f \in Events :
          /\ e.user_id = last.user /\ f.user_id = last.user
          /\ e.event_date # None /\ f.event_date # None
          /\ e.event_date # f.event_date
          /\ e.id < f.id /\ TextLess(f.event_date[1], e.event_date[1])

---------------------------------------------------------------------------
\* the user a bearer token authenticates, {} if none
Authenticates(token) == get_current_user(<<"Bearer ", token>>)

(* C24  Concurrent sessions and logout frame.  A login answered 200 adds   *)
(* exactly one Sessions row, of the user who logged in and with the token  *)
(* returned, and removes or changes no other row: every token              *)
(* authenticates after it whom it authenticated before, and every          *)
(* unexpired token of the user authenticates that user.  A logout with     *)
(* token T removes the row of T and no other row, and leaves Users,        *)
(* People, Relationships and Events unchanged.                             *)
C24_SessionsFrame ==
    [][ /\ (last'.op = "login" /\ last'.status = 200)
           => /\ \E s \in Sessions' \ Sessions :
                    /\ Sessions' = Sessions \cup {s}
                    /\ s.user_id = last'.user
                    /\ last'.data = {s.session_token}
                    /\ \A t \in Sessions : t.session_token # s.session_token
              /\ \A t \in Sessions : Authenticates(t.session_token)' = Authenticates(t.session_token)
              /\ \A t \in Sessions' :
                    (t.user_id = last'.user /\ t.expires_at > now')
                       => Authenticates(t.session_token)' = {last'.user}
        /\ Called({"logout"})
           => /\ Sessions' = {s \in Sessions : s.session_token # last'.hdr[2]}
              /\ Cardinality(Sessions') = Cardinality(Sessions) - 1
              /\ \A t \in Sessions' : Authenticates(t.session_token)' = Authenticates(t.session_token)
              /\ UNCHANGED <<Users, People, Relationships, Events>>
      ]_vars

\* a user holding two sessions has logged out of one, and the other one
\* still authenticates that user
C24_Witness ==
    /\ last.op = "logout"
    /\ last.status = 200
    /\ \E s \in Sessions :
          /\ s.user_id = last.user
          /\ s.session_token # last.hdr[2]
          /\ Authenticates(s.session_token) = {last.user}

---------------------------------------------------------------------------
(* C25  No uniqueness or symmetry of relationships.  create_relationship   *)
(* with a payload that passes its checks answers 201 and adds exactly one  *)
(* row, of the payload's endpoints in the payload's order and with an id   *)
(* no stored row has, also when a stored row has the same endpoints and    *)
(* type or the same type and the endpoints swapped; no create adds any     *)
(* other row, or changes or removes a stored row.                          *)
C25_NoUniquenessNoSymmetry ==
    [][ Called({"create_relationship"})
          => /\ Relationships \subseteq Relationships'
             /\ Cardinality(Relationships' \ Relationships) <= 1
             /\ FirstFailingCheck(Person1 = None, Person2 = None) = ""
                   => /\ last'.status = 201
                      /\ \E r \in Relationships' \ Relationships :
                            /\ r.person1_id = Person1[1]
                            /\ r.person2_id = Person2[1]
                            /\ r.type = StrLower(StrStrip(OrEmpty(TypeIn)))
                            /\ last'.data = {r.id}
                            /\ \A o \in Relationships : o.id # r.id
      ]_vars

\* a relationship has been created while a stored one had its endpoints
\* and type and another one its type and the endpoints swapped
C25_Witness ==
    /\ last.op = "create_relationship"
    /\ last.status = 201
    /\ \E r, same, swapped \in Relationships :
          /\ last.data = {r.id}
          /\ same.id # r.id /\ swapped.id # r.id
          /\ same.type = r.type /\ swapped.type = r.type
          /\ same.person1_id = r.person1_id /\ same.person2_id = r.person2_id
          /\ swapped.person1_id = r.person2_id /\ swapped.person2_id = r.person1_id

---------------------------------------------------------------------------
\* the operations that only read
ReadOps ==
    {"get_current_user_info", "get_all_people", "get_person", "get_relationship_types",
     "get_relationships", "get_relationship", "list_events", "get_event"}

\* a request has been answered by this step
Answered == last = NoRequest /\ last'.op # "idle"

(* C26  Failed operations have no effect.  Every operation answered 400,   *)
(* 401 or 404 leaves Users, Sessions, People, Relationships and Events     *)
(* as they were before the call, a failed login included; so does every    *)
(* read operation, whatever it answers.                                    *)
C26_FailuresHaveNoEffect ==
    [][ (Answered /\ (last'.status \in {400, 401, 404} \/ last'.op \in ReadOps))
          => UNCHANGED <<Users, Sessions, People, Relationships, Events>>
      ]_vars

\* a login has been refused for its password, while sessions, people, a
\* relationship and an event are stored
C26_Witness ==
    /\ last.op = "login"
    /\ last.status = 401
    /\ Sessions # {}
    /\ Len(People) > 0
    /\ Relationships # {}
    /\ Events # {}

---------------------------------------------------------------------------
(* C27  Monotone Person lifecycle.  No step removes a People row, changes  *)
(* the user_id of a stored person, or sets is_deleted of a soft-deleted    *)
(* person back to false: a soft-deleted person is soft-deleted and of the  *)
(* same owner in every later state.                                        *)
C27_MonotonePersonLifecycle ==
    [][ \A p \in 1..Len(People) :
           /\ Len(People') >= p
           /\ People'[p].user_id = People[p].user_id
           /\ People[p].is_deleted => People'[p].is_deleted
      ]_vars

\* the owner of a soft-deleted person has asked to update or delete it, and
\* another person has been created after it
C27_Witness ==
    /\ last.op \in {"update_person", "delete_person"}
    /\ last.status = 404
    /\ last.id \in 1..Len(People)
    /\ People[last.id].is_deleted
    /\ People[last.id].user_id = last.user
    /\ Len(People) > last.id

=============================================================================
